---- MODULE Spec2Model ----
(***************************************************************************)
(* A model of escpos-rs: per-print data (PrintData), the instruction       *)
(* template tree and its serialization (Instruction::to_vec), the printer  *)
(* front end (Printer::instruction), the text formatter (Formatter) with   *)
(* its tables, and the image cache and persistence of EscposImage.         *)
(*                                                                         *)
(* A Rust String is a sequence of characters, each a one-character TLA+    *)
(* string.  The character "E" stands for U+20AC (three bytes in UTF-8, no  *)
(* code point in code page 437).  Bytes are integers in 0..255.            *)
(***************************************************************************)
EXTENDS Integers, Sequences, FiniteSets, TLC

VARIABLES
    lhs, rhs, merged, calls,                      \* PrintData builders and merge
    x, y, sum, before, op,                        \* Instruction + and +=
    instruction, print_data, printer_profile,     \* inputs of a print
    outcome, transport, step,                     \* result of a print, bytes on the wire
    source, width, split, fcall,                  \* Formatter calls
    table_options, table_header, table_rows,      \* Formatter tables: inputs
    overflow_checks, table_out, tcall,            \* the build profile, the table laid out
    escpos_image, fed, fed_width, icall,          \* EscposImage calls
    persisted, loaded,                            \* a serialized EscposImage, and read back
    printer, usb_writes, stdout,                  \* a Printer, what it wrote and printed
    presult, pcall, parg                          \* the last call on the Printer

vars == <<lhs, rhs, merged, calls, x, y, sum, before, op, instruction, print_data,
          printer_profile, outcome, transport, step, source, width, split, fcall,
          table_options, table_header, table_rows, overflow_checks, table_out, tcall,
          escpos_image, fed, fed_width, icall, persisted, loaded,
          printer, usb_writes, stdout, presult, pcall, parg>>

(***************************************************************************)
(* Strings                                                                 *)
(***************************************************************************)
Euro == "E"
Whitespace == {" ", "\n"}

\* Number of bytes of one character in UTF-8.
Utf8Len(c) == IF c = Euro THEN 3 ELSE 1

RECURSIVE ByteLen(_)
\* str::len(): the length of a string in bytes.
ByteLen(s) == IF s = <<>> THEN 0 ELSE Utf8Len(Head(s)) + ByteLen(Tail(s))

\* Iterator::take(n) on the characters of s.
Take(s, n) == SubSeq(s, 1, IF n < Len(s) THEN n ELSE Len(s))

\* What is left of s after take(n).
Drop(s, n) == SubSeq(s, (IF n < Len(s) THEN n ELSE Len(s)) + 1, Len(s))

RECURSIVE SplitFrom(_, _, _, _)
SplitFrom(s, seps, i, cur) ==
    IF i > Len(s) THEN <<cur>>
    ELSE IF s[i] \in seps THEN <<cur>> \o SplitFrom(s, seps, i + 1, <<>>)
    ELSE SplitFrom(s, seps, i + 1, Append(cur, s[i]))

\* str::split("\n"): n separators give n + 1 pieces, empty ones included.
SplitLines(s) == SplitFrom(s, {"\n"}, 1, <<>>)

\* str::split_whitespace(): the non-empty pieces between whitespace.
SplitWhitespace(s) == SelectSeq(SplitFrom(s, Whitespace, 1, <<>>), LAMBDA p : p # <<>>)

RECURSIVE Join(_, _)
\* [String]::join(sep)
Join(pieces, sep) ==
    IF pieces = <<>> THEN <<>>
    ELSE IF Len(pieces) = 1 THEN pieces[1]
    ELSE pieces[1] \o sep \o Join(Tail(pieces), sep)

\* n copies of the character (or byte) c.
Repeat(c, n) == [i \in 1..n |-> c]

(***************************************************************************)
(* Option<T>                                                               *)
(***************************************************************************)
None == [some |-> FALSE, val |-> <<>>]
Some(v) == [some |-> TRUE, val |-> v]

(***************************************************************************)
(* PrintData and its builder (instruction/print_data.rs)                   *)
(***************************************************************************)
Categories == {"replacements", "duo_tables", "trio_tables", "quad_tables", "qr_contents"}

\* PrintDataBuilder::default
PrintDataBuilderDefault == [c \in Categories |-> None]

\* HashMap::insert
Insert(map, k, v) == [j \in DOMAIN map \cup {k} |-> IF j = k THEN v ELSE map[j]]

\* PrintDataBuilder::replacement, add_duo_table, add_trio_table, add_quad_table,
\* add_qr_code: insert into the category's map, creating the map when absent.
BuilderAdd(builder, category, k, v) ==
    [builder EXCEPT ![category] =
        IF builder[category].some
        THEN Some(Insert(builder[category].val, k, v))
        ELSE Some(Insert(<<>>, k, v))]

\* Option::unwrap_or_else(|| HashMap::new())
UnwrapOrNew(o) == IF o.some THEN o.val ELSE <<>>

\* a.into_iter().chain(b).collect::<HashMap>(): the pairs are inserted in
\* order, those of a first and those of b after them, and an insert of a key
\* already present overwrites its value.
ChainCollect(a, b) ==
    [k \in DOMAIN a \cup DOMAIN b |-> IF k \in DOMAIN b THEN b[k] ELSE a[k]]

\* PrintData::merge
Merge(self, other) ==
    [c \in Categories |->
        LET m == ChainCollect(UnwrapOrNew(self[c]), UnwrapOrNew(other[c]))
        IN  IF DOMAIN m = {} THEN None ELSE Some(m)]

(***************************************************************************)
(* Commands (command/command.rs, font.rs, charset.rs, code_table.rs)       *)
(***************************************************************************)
Fonts == <<"FontA", "FontB", "FontC", "FontD", "FontE">>

Charsets == <<"USA", "France", "Germany", "UK", "Denmark1", "Sweden", "Italy",
              "Spain1", "Japan", "Norway", "Denmark2", "Spain2", "LatinAmerica",
              "Korea", "SloveniaCroatia", "China", "Vietnam", "Arabia">>

\* Position of e in the sequence s, counted from 0.
IndexOf(s, e) == (CHOOSE i \in 1..Len(s) : s[i] = e) - 1

\* Font::as_bytes
FontBytes(font) == <<IndexOf(Fonts, font)>>

\* Charset::as_bytes
CharsetBytes(charset) == <<IndexOf(Charsets, charset)>>

\* CodeTable::as_bytes
CodeTableBytes(code_table) == IF code_table = "USA" THEN <<0>> ELSE <<2>>

Cmd(name) == [cmd |-> name, arg |-> ""]
SelectFont(font) == [cmd |-> "SelectFont", arg |-> font]
SelectCharset(charset) == [cmd |-> "SelectCharset", arg |-> charset]
SelectCodeTable(code_table) == [cmd |-> "SelectCodeTable", arg |-> code_table]

\* Command::as_bytes
CommandBytes(c) ==
    CASE c.cmd = "Cut" -> <<29, 86, 65, 150>>
      [] c.cmd = "Reset" -> <<29, 64>>
      [] c.cmd = "PrintModeDefault" -> <<27, 33, 0>>
      [] c.cmd = "SelectCharset" -> <<27, 82>> \o CharsetBytes(c.arg)
      [] c.cmd = "SelectCodeTable" -> <<27, 116>> \o CodeTableBytes(c.arg)
      [] c.cmd = "SelectFont" -> <<27, 77>> \o FontBytes(c.arg)
      [] c.cmd = "UnderlineOff" -> <<27, 45, 0>>
      [] c.cmd = "Underline1Dot" -> <<27, 45, 1>>
      [] c.cmd = "Underline2Dot" -> <<27, 45, 2>>
      [] c.cmd = "BoldOn" -> <<27, 69, 1>>
      [] c.cmd = "BoldOff" -> <<27, 69, 0>>
      [] c.cmd = "Bitmap" -> <<27, 42>>
      [] c.cmd = "NoLine" -> <<27, 51, 0>>
      [] c.cmd = "ResetLine" -> <<27, 50>>

(***************************************************************************)
(* Results: Ok(bytes), Err(error) or a panic that unwinds the call.        *)
(***************************************************************************)
Ok(b) == [tag |-> "Ok", bytes |-> b, error |-> "", arg |-> <<>>]
Err(e, a) == [tag |-> "Err", bytes |-> <<>>, error |-> e, arg |-> a]
Panic == [tag |-> "Panic", bytes |-> <<>>, error |-> "", arg |-> <<>>]

\* target.append(&mut f()?) after a prefix: the first result that is not Ok
\* leaves the function (the ? operator, or the unwinding of a panic), and the
\* bytes gathered so far are dropped with the local buffer.
AndThen(first, second) ==
    IF first.tag # "Ok" THEN first
    ELSE IF second.tag # "Ok" THEN second
    ELSE Ok(first.bytes \o second.bytes)

(***************************************************************************)
(* Code page 437 (codepage_437::IntoCp437 with CP437_CONTROL)              *)
(***************************************************************************)
Cp437Table ==
    << <<"\n", 10>>, <<" ", 32>>, <<"%", 37>>, <<"-", 45>>, <<".", 46>>,
       <<"a", 97>>, <<"b", 98>>, <<"c", 99>>, <<"d", 100>>, <<"x", 120>>,
       <<"y", 121>>, <<"z", 122>> >>

Cp437Chars == {Cp437Table[i][1] : i \in 1..Len(Cp437Table)}

Cp437Byte(c) == (CHOOSE i \in 1..Len(Cp437Table) : Cp437Table[i][1] = c) - 1

\* String::into_cp437(&CP437_CONTROL).map_err(|_| Error::Encoding)
IntoCp437(s) ==
    IF \E i \in 1..Len(s) : s[i] \notin Cp437Chars
    THEN Err("Encoding", <<>>)
    ELSE Ok([i \in 1..Len(s) |-> Cp437Table[Cp437Byte(s[i]) + 1][2]])

(***************************************************************************)
(* format! with a width: padding counts characters and never truncates.    *)
(***************************************************************************)
Spaces(n) == Repeat(" ", n)

\* {:<w$}
PadRight(s, w) == s \o Spaces(w - Len(s))

\* {:>w$}
PadLeft(s, w) == Spaces(w - Len(s)) \o s

\* {:^w$}: the odd space goes to the right.
PadCenter(s, w) ==
    LET pad == IF w > Len(s) THEN w - Len(s) ELSE 0
    IN  Spaces(pad \div 2) \o s \o Spaces((pad + 1) \div 2)

\* str::is_char_boundary on a byte offset n <= len.
IsCharBoundary(s, n) == \E k \in 0..Len(s) : ByteLen(Take(s, k)) = n

\* &s[..n] for a byte offset n that is a character boundary.
BytePrefix(s, n) == Take(s, CHOOSE k \in 0..Len(s) : ByteLen(Take(s, k)) = n)

(***************************************************************************)
(* Instruction: construction, + and += (instruction/instruction.rs)        *)
(***************************************************************************)
Compound(instructions) == [kind |-> "Compound", instructions |-> instructions]
Cut == [kind |-> "Cut"]
Command(command) == [kind |-> "Command", command |-> command]
VSpace(lines) == [kind |-> "VSpace", lines |-> lines]
Image(image) == [kind |-> "Image", image |-> image]
QRCode(name) == [kind |-> "QRCode", name |-> name]
DuoTable(name, header, font) ==
    [kind |-> "DuoTable", name |-> name, header |-> header, font |-> font]
TrioTable(name, header) == [kind |-> "TrioTable", name |-> name, header |-> header]
QuadTable(name, header) == [kind |-> "QuadTable", name |-> name, header |-> header]

\* Instruction::Text.  replacements is None or Some(keys): the keys of the
\* HashSet as a sequence without repetition, in the order in which this
\* instance of the set is iterated.
Text(content, markdown, font, justification, replacements) ==
    [kind |-> "Text", content |-> content, markdown |-> markdown, font |-> font,
     justification |-> justification, replacements |-> replacements]

\* Instruction::is_compound
IsCompound(i) == i.kind = "Compound"

\* An addition that nests its operands instead of joining their children.
AddNested(self, other) == Compound(<<self, other>>)

\* impl Add for Instruction
Add(self, other) ==
    IF IsCompound(self)
    THEN IF IsCompound(other)
         THEN Compound(self.instructions \o other.instructions)
         ELSE Compound(Append(self.instructions, other))
    ELSE IF IsCompound(other)
         THEN Compound(<<self>> \o other.instructions)
         ELSE Compound(Append(<<self>>, other))

\* impl AddAssign for Instruction: the value of self after self += other.
AddAssign(self, other) ==
    LET wrapped == IF ~IsCompound(self) THEN Compound(<<self>>) ELSE self
    IN  IF IsCompound(other)
        THEN Compound(wrapped.instructions \o other.instructions)
        ELSE Compound(Append(wrapped.instructions, other))

(***************************************************************************)
(* EscposImage (instruction/escpos_image.rs).  The bitmap is its size and  *)
(* one colour for all its pixels: ink (dark and opaque) or none.  The      *)
(* field source is base64 of the pixels of dynamic_image, set once by new: *)
(* it is computed from the bitmap where it is read (Source).               *)
(***************************************************************************)
EscposImage(im_width, im_height, ink, cache) ==
    [im_width |-> im_width, im_height |-> im_height, ink |-> ink,
     cached_widths |-> {}, cache |-> cache]

\* The byte of one column of a raster line that covers n (1..8) pixel rows:
\* row y sets bit 7 - y % 8.
ColumnByte(ink, n) == IF ink THEN 256 - 2^(8 - n) ELSE 0

RECURSIVE RasterLines(_, _, _)
RasterLines(printer_width, rows_left, ink) ==
    IF rows_left <= 0 THEN <<>>
    ELSE LET n == IF rows_left < 8 THEN rows_left ELSE 8
         IN  CommandBytes(Cmd("Bitmap"))
             \o <<1, printer_width % 256, (printer_width \div 256) % 256>>
             \o Repeat(ColumnByte(ink, n), printer_width)
             \o <<10>>
             \o RasterLines(printer_width, rows_left - 8, ink)

\* A feed without the NoLine command in front.
BuildScaledUnframed(image, printer_width) ==
    LET new_height == (printer_width * image.im_height) \div (3 * image.im_width)
    IN  RasterLines(printer_width, new_height, image.ink)
        \o CommandBytes(Cmd("ResetLine"))
        \o CommandBytes(Cmd("Reset"))

\* EscposImage::build_scaled
BuildScaled(image, printer_width) ==
    LET new_height == (printer_width * image.im_height) \div (3 * image.im_width)
    IN  CommandBytes(Cmd("NoLine"))
        \o RasterLines(printer_width, new_height, image.ink)
        \o CommandBytes(Cmd("ResetLine"))
        \o CommandBytes(Cmd("Reset"))

\* A cache_for that stores the raster of another width.
CacheForStale(image, w) == [image EXCEPT !.cache = Insert(image.cache, w, BuildScaled(image, 0))]

\* EscposImage::cache_for: the cache after the call.
CacheFor(image, w) == [image EXCEPT !.cache = Insert(image.cache, w, BuildScaled(image, w))]

\* EscposImage::feed
Feed(image, w) ==
    IF w \in DOMAIN image.cache THEN image.cache[w] ELSE BuildScaled(image, w)

\* EscposImage::new on an image of the given size: the canvas keeps the width
\* and takes the scaled height.
EscposImageNew(im_width, im_height, ink, scale) ==
    EscposImage(im_width, (im_height * scale) \div 255, ink, <<>>)

\* DynamicImage::as_bytes of the RGBA canvas: four bytes a pixel, row by row,
\* and nothing else (the size is not part of the buffer).
AsBytes(image) ==
    [i \in 1..(4 * image.im_width * image.im_height) |->
        IF i % 4 = 0 /\ image.ink THEN 255 ELSE 0]

\* base64::encode.  A character of the text is its index in the standard
\* alphabet (0..63); Base64Pad is the padding character '='.
Base64Pad == 64

Base64Encode(bytes) ==
    LET n == Len(bytes)
        at(j) == IF j <= n THEN bytes[j] ELSE 0
    IN  [i \in 1..(4 * ((n + 2) \div 3)) |->
            LET g == (i - 1) \div 4
                k == (i - 1) % 4
                triple == at(3 * g + 1) * 65536 + at(3 * g + 2) * 256 + at(3 * g + 3)
            IN  IF (k = 2 /\ 3 * g + 2 > n) \/ (k = 3 /\ 3 * g + 3 > n) THEN Base64Pad
                ELSE (triple \div (64 ^ (3 - k))) % 64]

\* base64::decode: None for a text that is not base64.
Base64Decode(text) ==
    LET n == Len(text)
        pad == Cardinality({i \in 1..n : text[i] = Base64Pad})
        sextet(j) == IF text[j] = Base64Pad THEN 0 ELSE text[j]
    IN  IF n % 4 # 0 \/ pad > 2 \/ \E i \in 1..(n - pad) : text[i] = Base64Pad THEN None
        ELSE Some([i \in 1..(3 * (n \div 4) - pad) |->
                LET g == (i - 1) \div 3
                    k == (i - 1) % 3
                    quad == sextet(4 * g + 1) * 262144 + sextet(4 * g + 2) * 4096
                            + sextet(4 * g + 3) * 64 + sextet(4 * g + 4)
                IN  (quad \div (256 ^ (2 - k))) % 256])

\* The field source of an image (escpos_image.rs:67).
Source(image) == Base64Encode(AsBytes(image))

\* impl Serialize for EscposImage: the tuple (source, cached_widths).
Serialize(image) == <<Source(image), image.cached_widths>>

\* The outcomes of deserialization.
Loaded(image) == [tag |-> "Ok", image |-> image, error |-> ""]
LoadError(e) == [tag |-> "Err", image |-> <<>>, error |-> e]

\* The bitmaps a decoder can make of the content.
Bitmap(im_width, im_height, ink) == [im_width |-> im_width, im_height |-> im_height, ink |-> ink]

BitmapSizes == {<<8, 8>>, <<8, 16>>, <<16, 8>>}

BitmapU == {Bitmap(size[1], size[2], ink) : size \in BitmapSizes, ink \in BOOLEAN}

\* image::load_from_memory (the image crate) on the decoded source.  The
\* content is the bare pixel buffer, not an encoded image file: the decoder
\* either does not recognise it (None) or makes of it a bitmap with these
\* pixels; both outcomes are kept.
LoadFromMemory(content) ==
    {None} \cup {Some(b) : b \in {d \in BitmapU : AsBytes(d) = content}}

\* EscposImageVisitor::visit_seq, the loop over cached_widths.
RECURSIVE CacheForEach(_, _)
CacheForEach(image, widths) ==
    IF widths = {} THEN image
    ELSE LET w == CHOOSE v \in widths : TRUE
         IN  CacheForEach(CacheFor(image, w), widths \ {w})

\* EscposImageVisitor::visit_seq: the set of possible outcomes.
Deserialize(tuple) ==
    LET content == Base64Decode(tuple[1])
    IN  IF ~content.some THEN {LoadError("string is not a valid base64 sequence")}
        ELSE {IF ~d.some THEN LoadError("first element of tuple not an image")
              ELSE Loaded(CacheForEach(
                       EscposImageNew(d.val.im_width, d.val.im_height, d.val.ink, 1),
                       tuple[2])) :
                d \in LoadFromMemory(content.val)}

\* Instruction::qr_code: the bitmap the QR encoder renders for the content
\* (a square that grows with the content), scaled by 128 / 255 and centred.
QrCodeInstruction(content) ==
    Image(EscposImageNew(8 * (Len(content) + 1), 8 * (Len(content) + 1), TRUE, 128))

(***************************************************************************)
(* Instruction::to_vec (instruction/instruction.rs).  Arithmetic on usize  *)
(* that would go below zero panics (overflow checks on); with the checks   *)
(* off the wrapped value is a padding width no buffer can hold, and the    *)
(* call ends abnormally as well.                                           *)
(***************************************************************************)
StartsWithAt(s, i, pat) ==
    /\ i + Len(pat) - 1 <= Len(s)
    /\ SubSeq(s, i, i + Len(pat) - 1) = pat

RECURSIVE ReplaceFrom(_, _, _, _)
ReplaceFrom(s, i, from, to) ==
    IF i > Len(s) THEN <<>>
    ELSE IF StartsWithAt(s, i, from) THEN to \o ReplaceFrom(s, i + Len(from), from, to)
    ELSE <<s[i]>> \o ReplaceFrom(s, i + 1, from, to)

RECURSIVE Interleave(_, _)
Interleave(s, to) == IF s = <<>> THEN to ELSE to \o <<Head(s)>> \o Interleave(Tail(s), to)

\* str::replace(from, to): the matches of from, found left to right without
\* overlap, are replaced; the empty pattern matches before every character
\* and at the end.
Replace(s, from, to) ==
    IF from = <<>> THEN Interleave(s, to) ELSE ReplaceFrom(s, 1, from, to)

\* print_data.replacements.get(key): a category that was never supplied
\* holds no key.
ReplacementsGet(data, key) ==
    LET map == UnwrapOrNew(data["replacements"])
    IN  IF key \in DOMAIN map THEN Some(map[key]) ELSE None

RECURSIVE ApplyReplacements(_, _, _, _)
\* The replacement loop of Text: the keys are visited in the iteration order
\* of the set; Ok carries the replaced string.
ApplyReplacements(replaced_string, keys, i, data) ==
    IF i > Len(keys) THEN Ok(replaced_string)
    ELSE LET replacement == ReplacementsGet(data, keys[i])
         IN  IF replacement.some
             THEN ApplyReplacements(Replace(replaced_string, keys[i], replacement.val),
                                    keys, i + 1, data)
             ELSE Err("NoReplacementFound", keys[i])

\* A format that never pads.
JustifyUnpadded(line, justification, w) == line \o <<"\n">>

\* format!("{}\n" | "{:>1$}\n" | "{:^1$}\n", line, width)
Justify(line, justification, w) ==
    CASE justification = "Left" -> line \o <<"\n">>
      [] justification = "Right" -> PadLeft(line, w) \o <<"\n">>
      [] justification = "Center" -> PadCenter(line, w) \o <<"\n">>

RECURSIVE WrapTokens(_, _, _, _, _, _, _)
\* The wrapping loop of Text and the flush of the last line.
WrapTokens(tokens, i, line, width_count, result, justification, w) ==
    IF i > Len(tokens)
    THEN IF ByteLen(line) # 0
         THEN AndThen(result, IntoCp437(Justify(line, justification, w)))
         ELSE result
    ELSE LET token == tokens[i]
         IN  IF width_count + ByteLen(token) + 1 > w
             THEN WrapTokens(tokens, i + 1, token, ByteLen(token),
                             AndThen(result, IntoCp437(Justify(line, justification, w))),
                             justification, w)
             ELSE WrapTokens(tokens, i + 1,
                             (IF ByteLen(line) # 0 THEN line \o <<" ">> ELSE line) \o token,
                             width_count + ByteLen(token) + (IF ByteLen(line) # 0 THEN 1 ELSE 0),
                             result, justification, w)

\* to_vec, Instruction::Text
TextToVec(ins, profile, data) ==
    IF ins.font \notin DOMAIN profile.columns_per_font THEN Err("NoWidth", <<>>)
    ELSE LET w == profile.columns_per_font[ins.font]
             replaced == IF ins.replacements.some
                         THEN ApplyReplacements(ins.content, ins.replacements.val, 1, data)
                         ELSE Ok(ins.content)
         IN  IF replaced.tag # "Ok" THEN replaced
             ELSE IF ins.markdown THEN Panic
             ELSE AndThen(Ok(CommandBytes(SelectFont(ins.font))),
                          WrapTokens(SplitWhitespace(replaced.bytes), 1, <<>>, 0,
                                     Ok(CommandBytes(Cmd("Reset"))),
                                     ins.justification, w))

\* format!("{}{:>2$}\n", a, b, width - a.len()).into_cp437(..)
DuoRow(row, w) ==
    IF ByteLen(row[1]) > w THEN Panic
    ELSE IntoCp437(row[1] \o PadLeft(row[2], w - ByteLen(row[1])) \o <<"\n">>)

RECURSIVE DuoRows(_, _, _)
DuoRows(table, i, w) ==
    IF i > Len(table) THEN Ok(<<>>) ELSE AndThen(DuoRow(table[i], w), DuoRows(table, i + 1, w))

\* The table of a category by its name: Err(NoTables) without the category,
\* Err(NoTableFound(name)) without the name, else Ok.
Lookup(data, category, name) ==
    IF ~data[category].some THEN Err("NoTables", <<>>)
    ELSE IF name \notin DOMAIN data[category].val THEN Err("NoTableFound", name)
    ELSE Ok(<<>>)

\* vec![b'-'; width] and the line feed
Dashes(w) == Repeat(45, w) \o <<10>>

\* to_vec, Instruction::DuoTable
DuoTableToVec(ins, profile, data) ==
    IF ins.font \notin DOMAIN profile.columns_per_font THEN Err("NoWidth", <<>>)
    ELSE LET w == profile.columns_per_font[ins.font]
             found == Lookup(data, "duo_tables", ins.name)
         IN  AndThen(DuoRow(ins.header, w),
             AndThen(Ok(Dashes(w)),
                     IF found.tag # "Ok" THEN found
                     ELSE DuoRows(data["duo_tables"].val[ins.name], 1, w)))

\* A string operation that may panic: Good(s) or Bad.
Good(s) == [ok |-> TRUE, s |-> s]
Bad == [ok |-> FALSE, s |-> <<>>]

\* String::replace_range(start.., ".."): start is a usize (a negative value
\* here is a subtraction that overflowed), no greater than the length and on
\* a character boundary.
ReplaceRangeFrom(s, start) ==
    IF start < 0 \/ start > ByteLen(s) THEN Bad
    ELSE IF ~IsCharBoundary(s, start) THEN Bad
    ELSE Good(BytePrefix(s, start) \o <<".", ".">>)

\* String::truncate(new_len)
Truncate(s, new_len) ==
    IF new_len >= ByteLen(s) THEN Good(s)
    ELSE IF ~IsCharBoundary(s, new_len) THEN Bad
    ELSE Good(BytePrefix(s, new_len))

\* trio_row: Ok carries the formatted line.
TrioRow(row, w, max_left, max_right) ==
    LET slot == w - max_left - max_right - 2
        r0 == IF ByteLen(row[1]) > max_left
              THEN ReplaceRangeFrom(row[1], max_left - 2) ELSE Good(row[1])
        r1 == IF ByteLen(row[2]) > slot
              THEN ReplaceRangeFrom(row[2], slot) ELSE Good(row[2])
        r2 == IF ByteLen(row[3]) > max_left
              THEN ReplaceRangeFrom(row[3], max_right - 2) ELSE Good(row[3])
        t0 == Truncate(r0.s, max_left)
        t2 == Truncate(r2.s, max_right)
        t1 == Truncate(r1.s, slot)
    IN  IF ~r0.ok \/ slot < 0 \/ ~r1.ok \/ ~r2.ok \/ ~t0.ok \/ ~t2.ok \/ ~t1.ok THEN Panic
        ELSE Ok(PadRight(t0.s, max_left)
                \o PadCenter(t1.s, w - max_left - max_right)
                \o PadLeft(t2.s, max_right) \o <<"\n">>)

\* trio_row(..).into_cp437(..)
TrioRowBytes(row, w, max_left, max_right) ==
    LET line == TrioRow(row, w, max_left, max_right)
    IN  IF line.tag # "Ok" THEN line ELSE IntoCp437(line.bytes)

Max(a, b) == IF a > b THEN a ELSE b

RECURSIVE MaxLen(_, _, _, _)
\* The longest column-th cell (in bytes) of the rows, starting from m.
MaxLen(table, i, column, m) ==
    IF i > Len(table) THEN m
    ELSE MaxLen(table, i + 1, column, Max(m, ByteLen(table[i][column])))

\* The widths of the left and right columns, TrioTable and QuadTable.
ColumnWidths(max_left, max_middle, max_right, w) ==
    IF max_left + max_middle + max_right + 2 <= w THEN <<max_left, max_right>>
    ELSE IF max_middle + max_right + 2 <= w /\ w - max_middle - max_right - 2 > 2
         THEN <<w - max_middle - max_right - 2, max_right>>
         ELSE <<w \div 3, w \div 3>>

RECURSIVE TrioRows(_, _, _, _, _)
TrioRows(table, i, w, max_left, max_right) ==
    IF i > Len(table) THEN Ok(<<>>)
    ELSE AndThen(TrioRowBytes(table[i], w, max_left, max_right),
                 TrioRows(table, i + 1, w, max_left, max_right))

\* to_vec, Instruction::TrioTable
TrioTableToVec(ins, profile, data) ==
    LET found == Lookup(data, "trio_tables", ins.name)
    IN  IF found.tag # "Ok" THEN found
        ELSE IF "FontA" \notin DOMAIN profile.columns_per_font THEN Err("NoWidth", <<>>)
        ELSE LET table == data["trio_tables"].val[ins.name]
                 w == profile.columns_per_font["FontA"]
                 cw == ColumnWidths(MaxLen(table, 1, 1, ByteLen(ins.header[1])),
                                    MaxLen(table, 1, 2, ByteLen(ins.header[2])),
                                    MaxLen(table, 1, 3, ByteLen(ins.header[3])), w)
             IN  AndThen(TrioRowBytes(ins.header, w, cw[1], cw[2]),
                 AndThen(Ok(Dashes(w)), TrioRows(table, 1, w, cw[1], cw[2])))

RECURSIVE QuadRows(_, _, _, _, _)
QuadRows(table, i, w, max_left, max_right) ==
    IF i > Len(table) THEN Ok(<<>>)
    ELSE AndThen(Ok(CommandBytes(SelectFont("FontB"))),
         AndThen(IntoCp437(table[i][1] \o <<"\n">>),
         AndThen(Ok(CommandBytes(SelectFont("FontA"))),
         AndThen(TrioRowBytes(Tail(table[i]), w, max_left, max_right),
                 QuadRows(table, i + 1, w, max_left, max_right)))))

\* to_vec, Instruction::QuadTable
QuadTableToVec(ins, profile, data) ==
    LET found == Lookup(data, "quad_tables", ins.name)
    IN  IF found.tag # "Ok" THEN found
        ELSE IF "FontA" \notin DOMAIN profile.columns_per_font THEN Err("NoWidth", <<>>)
        ELSE LET table == data["quad_tables"].val[ins.name]
                 w == profile.columns_per_font["FontA"]
                 cw == ColumnWidths(MaxLen(table, 1, 2, ByteLen(ins.header[1])),
                                    MaxLen(table, 1, 3, ByteLen(ins.header[2])),
                                    MaxLen(table, 1, 4, ByteLen(ins.header[3])), w)
             IN  AndThen(TrioRowBytes(ins.header, w, cw[1], cw[2]),
                 AndThen(Ok(Dashes(w)), QuadRows(table, 1, w, cw[1], cw[2])))

\* to_vec, Instruction::QRCode: the payload of the name, encoded as a QR
\* image instruction and serialized in its turn.
QRCodeToVec(ins, profile, data) ==
    IF ~data["qr_contents"].some THEN Err("NoQrContents", <<>>)
    ELSE IF ins.name \notin DOMAIN data["qr_contents"].val THEN Err("NoQrContent", ins.name)
    ELSE Ok(Feed(QrCodeInstruction(data["qr_contents"].val[ins.name]).image, profile.width))

RECURSIVE ToVec(_, _, _)
RECURSIVE CompoundToVec(_, _, _, _)
RECURSIVE CompoundToVecSkipping(_, _, _, _)
\* A walk that drops a child that fails and goes on with the next one.
CompoundToVecSkipping(instructions, i, profile, data) ==
    IF i > Len(instructions) THEN Ok(<<>>)
    ELSE LET child == ToVec(instructions[i], profile, data)
             rest == CompoundToVecSkipping(instructions, i + 1, profile, data)
         IN  IF child.tag # "Ok" THEN rest ELSE AndThen(child, rest)

\* to_vec, Instruction::Compound: the children in list order, each with ?.
CompoundToVec(instructions, i, profile, data) ==
    IF i > Len(instructions) THEN Ok(<<>>)
    ELSE LET child == ToVec(instructions[i], profile, data)
         IN  IF child.tag # "Ok" THEN child
             ELSE AndThen(child, CompoundToVec(instructions, i + 1, profile, data))

\* Instruction::to_vec
ToVec(ins, profile, data) ==
    CASE ins.kind = "Compound" -> CompoundToVec(ins.instructions, 1, profile, data)
      [] ins.kind = "Cut" -> Ok(CommandBytes(Cmd("Cut")))
      [] ins.kind = "Command" -> Ok(CommandBytes(ins.command))
      [] ins.kind = "VSpace" -> Ok(Repeat(10, ins.lines))
      [] ins.kind = "Image" -> Ok(Feed(ins.image, profile.width))
      [] ins.kind = "QRCode" -> QRCodeToVec(ins, profile, data)
      [] ins.kind = "Text" -> TextToVec(ins, profile, data)
      [] ins.kind = "DuoTable" -> DuoTableToVec(ins, profile, data)
      [] ins.kind = "TrioTable" -> TrioTableToVec(ins, profile, data)
      [] ins.kind = "QuadTable" -> QuadTableToVec(ins, profile, data)

(***************************************************************************)
(* Printer::instruction (printer.rs, printer/usb_printer.rs)               *)
(***************************************************************************)
\* Printer::raw: the buffer is handed to the bulk endpoint in one write,
\* which the device accepts or refuses; a printer without a USB connection
\* panics ("Unimplemented").  The result and the writes seen by the sink.
Raw(connection, bytes, accepted, sink) ==
    IF connection # "Usb" THEN [result |-> Panic, sink |-> sink]
    ELSE [result |-> IF accepted THEN Ok(<<>>) ELSE Err("RusbError", <<>>),
          sink |-> Append(sink, bytes)]

\* Printer::instruction (printer.rs): let content = to_vec(..)?; self.raw(&content)
PrinterInstruction(ins, profile, data, accepted, sink) ==
    LET content == ToVec(ins, profile, data)
    IN  IF content.tag # "Ok" THEN [result |-> content, sink |-> sink]
        ELSE Raw(profile.connection, content.bytes, accepted, sink)

\* Printer::instruction (printer/usb_printer.rs):
\* let content = to_vec(..).unwrap(); self.raw(&content)
UsbPrinterInstruction(ins, profile, data, accepted, sink) ==
    LET content == ToVec(ins, profile, data)
    IN  IF content.tag # "Ok" THEN [result |-> Panic, sink |-> sink]
        ELSE Raw("Usb", content.bytes, accepted, sink)

(***************************************************************************)
(* Formatter::space_split (formatter.rs)                                   *)
(***************************************************************************)
RECURSIVE HardSplit(_, _)
\* The hard split of a word of at least w characters: a fragment of w
\* characters is collected and pushed, and again as long as the fragment
\* just pushed was not empty.
HardSplit(word, w) ==
    LET word_fragment == Take(word, w)
    IN  IF word_fragment = <<>> THEN <<word_fragment>>
        ELSE <<word_fragment>> \o HardSplit(Drop(word, w), w)

RECURSIVE BreakLine(_, _, _, _, _)
\* The loop over the words of one line of the source; current_line is
\* measured in bytes and the word in characters.
BreakLine(words, i, current_line, broken_lines, w) ==
    IF i > Len(words)
    THEN IF current_line # <<>> THEN Append(broken_lines, current_line) ELSE broken_lines
    ELSE LET word == words[i]
             num_chars == Len(word)
         IN  IF ByteLen(current_line) + num_chars + 1 < w
             THEN BreakLine(words, i + 1,
                            current_line
                            \o (IF ByteLen(current_line) = 0 THEN <<>> ELSE <<" ">>) \o word,
                            broken_lines, w)
             ELSE LET pushed == IF current_line # <<>>
                                THEN Append(broken_lines, current_line) ELSE broken_lines
                  IN  IF num_chars < w
                      THEN BreakLine(words, i + 1, word, pushed, w)
                      ELSE BreakLine(words, i + 1, current_line,
                                     pushed \o HardSplit(word, w), w)

\* Formatter::space_split
SpaceSplit(src, w) ==
    LET lines == SplitLines(src)
        broken == [i \in 1..Len(lines) |->
                      Join(BreakLine(SplitWhitespace(lines[i]), 1, <<>>, <<>>, w), <<"\n">>)]
        result == Join(broken, <<>>)
    IN  IF src # <<>> /\ src[Len(src)] = "\n" THEN result \o <<"\n">> ELSE result

(***************************************************************************)
(* Formatter tables (formatter.rs).  Lengths are byte lengths (String::len) *)
(* and format! pads by characters.  A usize subtraction that goes below    *)
(* zero panics in a build with overflow checks and wraps in a build        *)
(* without them; the wrapped value stands as Huge, beyond any length.      *)
(***************************************************************************)
Huge == 2^30

\* a - b on usize, wrapped.
USub(a, b) == IF a >= b THEN a - b ELSE Huge

RECURSIVE RepeatString(_, _)
\* str::repeat
RepeatString(s, n) == IF n <= 0 THEN <<>> ELSE s \o RepeatString(s, n - 1)

\* Formatter::print_header_division_pattern: Good of the line, Good of the
\* empty string for None, Bad for a panic (division by zero, truncate off a
\* character boundary).
PrintHeaderDivisionPattern(options, w) ==
    IF ~options.header_division_pattern.some THEN Good(<<>>)
    ELSE LET header_division_pattern == options.header_division_pattern.val
         IN  IF ByteLen(header_division_pattern) = 0 THEN Bad
             ELSE LET line == Truncate(RepeatString(header_division_pattern,
                                           w \div ByteLen(header_division_pattern) + 1), w)
                  IN  IF line.ok THEN Good(line.s \o <<"\n">>) ELSE Bad

\* A shortening that never puts the replacement in.
ShortenUnmarked(s, new_len, replace_last) == Truncate(s, new_len)

\* s.truncate(new_len); s += &replacement.to_string() when there is one.
Shorten(s, new_len, replace_last) ==
    LET cut == Truncate(s, new_len)
    IN  IF cut.ok THEN Good(cut.s \o replace_last.val) ELSE Bad

Columns(first, second) == [ok |-> TRUE, first |-> first, second |-> second]
NoColumns == [ok |-> FALSE, first |-> <<>>, second |-> <<>>]

\* aux_duo_table, the branch row_width >= width: the two cells after the
\* shortening.
DuoColumns(first, second, w, replace_last, checks) ==
    LET off2 == IF replace_last.some THEN 5 ELSE 4
        second1 == IF ByteLen(second) + 4 > w
                   THEN IF checks /\ w < off2 THEN Bad
                        ELSE Shorten(second, USub(w, off2), replace_last)
                   ELSE Good(second)
    IN  IF ~second1.ok THEN NoColumns
        ELSE IF checks /\ w < ByteLen(second1.s) THEN NoColumns
        ELSE LET remaining == USub(w, ByteLen(second1.s))
                 off1 == IF replace_last.some THEN 2 ELSE 1
                 first1 == IF ByteLen(first) > remaining
                           THEN IF checks /\ remaining < off1 THEN Bad
                                ELSE Shorten(first, USub(remaining, off1), replace_last)
                           ELSE Good(first)
             IN  IF first1.ok THEN Columns(first1.s, second1.s) ELSE NoColumns

\* aux_duo_table: one line of the table.  A padding width that wrapped cannot
\* be allocated, so the subtraction in format! aborts in either build.
AuxDuoTable(first, second, w, replace_last, checks) ==
    LET columns == IF ByteLen(first) + ByteLen(second) < w
                   THEN Columns(first, second)
                   ELSE DuoColumns(first, second, w, replace_last, checks)
    IN  IF ~columns.ok THEN Bad
        ELSE IF w < ByteLen(columns.first) + 1 THEN Bad
        ELSE Good(columns.first \o <<" ">>
                  \o PadLeft(columns.second, w - (ByteLen(columns.first) + 1))
                  \o <<"\n">>)

\* Appends the next piece to the content unless one of them panicked.
Then(content, piece) ==
    IF content.ok /\ piece.ok THEN Good(content.s \o piece.s) ELSE Bad

RECURSIVE DuoTableRows(_, _, _, _, _)
DuoTableRows(content, rows, i, w, checks) ==
    IF i > Len(rows) \/ ~content.ok THEN content
    ELSE DuoTableRows(Then(content, AuxDuoTable(rows[i][1], rows[i][2],
                                                w, None, checks)),
                      rows, i + 1, w, checks)

\* Formatter::duo_table
FormatterDuoTable(options, w, header, rows, checks) ==
    DuoTableRows(Then(AuxDuoTable(header[1], header[2], w, Some(<<".">>), checks),
                      PrintHeaderDivisionPattern(options, w)),
                 rows, 1, w, checks)

\* A value of type u8 after an operation: Bad when the operation overflowed
\* in a build with overflow checks, the wrapped value otherwise.
U8(v, checks) ==
    IF v \in 0..255 THEN [ok |-> TRUE, v |-> v]
    ELSE IF checks THEN [ok |-> FALSE, v |-> 0]
    ELSE [ok |-> TRUE, v |-> v % 256]

\* value as u8
AsU8(v) == v % 256

\* The column limits of trio_table: [ok, left, right].
Limits(ok, left, right) == [ok |-> ok, left |-> left, right |-> right]

TrioLimits(max_left, max_middle, max_right, w, checks) ==
    IF max_left + max_middle + max_right + 2 < w
    THEN Limits(TRUE, AsU8(max_left + 1), AsU8(w - max_right - 1))
    ELSE LET left == IF max_middle + max_right + 4 > w THEN 4
                     ELSE AsU8(w - max_middle - max_right)
             remaining == U8(w - left, checks)
             needed == U8(AsU8(max_right) + 4, checks)
         IN  IF ~remaining.ok \/ ~needed.ok THEN Limits(FALSE, 0, 0)
             ELSE IF needed.v > remaining.v
             THEN LET right == U8(left + 4, checks)
                  IN  Limits(right.ok, left, right.v)
             ELSE LET total == U8(left + remaining.v, checks)
                      right == U8(total.v - AsU8(max_right), checks)
                  IN  Limits(total.ok /\ right.ok, left, right.v)

\* aux_trio_table: one line of the table.
AuxTrioTable(first, second, third, w, limits, replace_last, checks) ==
    LET slot2 == U8(limits.right - limits.left, checks)
        slot3 == U8(w - limits.right, checks)
        pad1 == U8(limits.left - 1, checks)
        pad3 == U8(slot3.v - 1, checks)
        first1 == IF ByteLen(first) > limits.left
                  THEN IF checks /\ limits.left < 1 THEN Bad
                       ELSE Shorten(first, USub(limits.left, 1), replace_last)
                  ELSE Good(first)
        second1 == IF ~slot2.ok THEN Bad
                   ELSE IF ByteLen(second) > slot2.v
                   THEN Shorten(second, slot2.v, replace_last)
                   ELSE Good(second)
        third1 == IF checks /\ ByteLen(third) < 1 THEN Bad
                  ELSE IF ~slot3.ok THEN Bad
                  ELSE IF USub(ByteLen(third), 1) > slot3.v
                  THEN Shorten(third, slot3.v, replace_last)
                  ELSE Good(third)
    IN  IF ~first1.ok \/ ~second1.ok \/ ~third1.ok \/ ~pad1.ok \/ ~pad3.ok THEN Bad
        ELSE Good(PadRight(first1.s, pad1.v) \o <<" ">>
                  \o PadCenter(second1.s, slot2.v) \o <<" ">>
                  \o PadLeft(third1.s, pad3.v) \o <<"\n">>)

RECURSIVE ColumnMax(_, _, _, _)
\* The longest cell (in bytes) of a column over the header and the rows.
ColumnMax(rows, i, column, max) ==
    IF i > Len(rows) THEN max
    ELSE ColumnMax(rows, i + 1, column,
                   IF ByteLen(rows[i][column]) > max THEN ByteLen(rows[i][column]) ELSE max)

RECURSIVE TrioTableRows(_, _, _, _, _, _)
TrioTableRows(content, rows, i, w, limits, checks) ==
    IF i > Len(rows) \/ ~content.ok THEN content
    ELSE TrioTableRows(Then(content, AuxTrioTable(rows[i][1], rows[i][2], rows[i][3],
                                                  w, limits, None, checks)),
                       rows, i + 1, w, limits, checks)

\* Formatter::trio_table
FormatterTrioTable(options, w, header, rows, checks) ==
    LET limits == TrioLimits(ColumnMax(rows, 1, 1, ByteLen(header[1])),
                             ColumnMax(rows, 1, 2, ByteLen(header[2])),
                             ColumnMax(rows, 1, 3, ByteLen(header[3])), w, checks)
    IN  IF ~limits.ok THEN Bad
        ELSE TrioTableRows(Then(AuxTrioTable(header[1], header[2], header[3],
                                             w, limits, None, checks),
                                PrintHeaderDivisionPattern(options, w)),
                           rows, 1, w, limits, checks)

(***************************************************************************)
(* Printer (printer.rs).  A call returns the printer after it, its result, *)
(* the writes the bulk endpoint has seen and what went to standard output. *)
(***************************************************************************)
\* Formatter::new
FormatterNew(w) ==
    [table_options |-> [header_division_pattern |-> Some(<<"-">>)], width |-> w]

\* Printer::new for a profile with a width for FontA, once the device is open.
PrinterNew(profile) ==
    [printer_profile |-> profile,
     printer_connection |-> profile.connection,
     font_and_width |-> <<"FontA", profile.columns_per_font["FontA"]>>,
     formatter |-> FormatterNew(profile.columns_per_font["FontA"]),
     space_split |-> FALSE]

Returned(p, result, writes, out) ==
    [printer |-> p, result |-> result, usb_writes |-> writes, stdout |-> out]

\* self.raw(bytes) as the last step of a call
PrinterRaw(p, bytes, accepted, writes, out) ==
    LET r == Raw(p.printer_connection, bytes, accepted, writes)
    IN  Returned(p, r.result, r.sink, out)

\* The bytes of a String (UTF-8): one byte a character, three for U+20AC.
Utf8Bytes(s) ==
    LET euros(k) == Cardinality({j \in 1..k : s[j] = Euro})
        first(k) == k + 2 * euros(k - 1)
    IN  [i \in 1..(Len(s) + 2 * euros(Len(s))) |->
            LET k == CHOOSE c \in 1..Len(s) : first(c) <= i /\ i < first(c) + Utf8Len(s[c])
            IN  IF s[k] = Euro THEN <<226, 130, 172>>[i - first(k) + 1]
                ELSE Cp437Table[Cp437Byte(s[k]) + 1][2]]

\* Printer::set_font
PrinterSetFont(p, font) ==
    IF font \in DOMAIN p.printer_profile.columns_per_font
    THEN [printer |-> [p EXCEPT !.font_and_width =
                                   <<font, p.printer_profile.columns_per_font[font]>>],
          result |-> Ok(<<>>)]
    ELSE [printer |-> p, result |-> Err("UnsupportedFont", <<>>)]

\* Printer::set_space_split
PrinterSetSpaceSplit(p, state) == [p EXCEPT !.space_split = state]

\* Printer::jump: vec![b'\n', n]
PrinterJump(p, n, accepted, writes, out) == PrinterRaw(p, <<10, n>>, accepted, writes, out)

\* Printer::cut
PrinterCut(p, accepted, writes, out) ==
    PrinterRaw(p, CommandBytes(Cmd("Cut")), accepted, writes, out)

\* Printer::print
PrinterPrint(p, text, accepted, writes, out) ==
    LET content == IF p.space_split THEN SpaceSplit(text, p.formatter.width) ELSE text
    IN  IF p.printer_connection = "Usb"
        THEN LET feed == IntoCp437(content)
             IN  IF feed.tag # "Ok" THEN Returned(p, Err("CP437Error", <<>>), writes, out)
                 ELSE PrinterRaw(p, feed.bytes, accepted, writes, out)
        ELSE IF p.printer_connection = "Terminal"
        THEN Returned(p, Ok(<<>>), writes, Append(out, content))
        ELSE Returned(p, Panic, writes, out)

\* Printer::println
PrinterPrintln(p, text, accepted, writes, out) ==
    PrinterPrint(p, text \o <<"\n">>, accepted, writes, out)

\* The end of Printer::duo_table and Printer::trio_table: the table goes to
\* standard output with a newline, or to raw as the bytes of the String.
PrinterTable(p, content, accepted, writes, out) ==
    IF ~content.ok THEN Returned(p, Panic, writes, out)
    ELSE IF p.printer_connection = "Terminal"
    THEN Returned(p, Ok(<<>>), writes, Append(out, content.s \o <<"\n">>))
    ELSE PrinterRaw(p, Utf8Bytes(content.s), accepted, writes, out)

\* Printer::duo_table
PrinterDuoTable(p, header, rows, checks, accepted, writes, out) ==
    PrinterTable(p, FormatterDuoTable(p.formatter.table_options, p.formatter.width,
                                      header, rows, checks),
                 accepted, writes, out)

\* Printer::trio_table
PrinterTrioTable(p, header, rows, checks, accepted, writes, out) ==
    PrinterTable(p, FormatterTrioTable(p.formatter.table_options, p.formatter.width,
                                       header, rows, checks),
                 accepted, writes, out)

(***************************************************************************)
(* Bounds and the values the inputs are drawn from                         *)
(***************************************************************************)
MaxBuilderCalls == 3
MaxChildren == 4
MaxColumns == 6
MaxSourceLen == 5
MaxFormatWidth == 4
MaxCellLen == 9
MaxTableWidth == 13
MaxImageWidth == 24
WideImageWidth == 260
WideColumns == 8
MaxWrites == 2
MaxJump == 3

A == <<"a">>
B == <<"b">>
AB == <<"a", "b">>
T1 == <<"x">>
T2 == <<"y">>

\* What the values of the other variables are while one part is exercised.
IdleMerge ==
    /\ lhs = PrintDataBuilderDefault /\ rhs = PrintDataBuilderDefault
    /\ merged = None /\ calls = 0
IdleAdd == x = Cut /\ y = Cut /\ sum = Cut /\ before = Cut /\ op = "none"
IdlePrint ==
    /\ instruction = Cut /\ print_data = PrintDataBuilderDefault
    /\ printer_profile = [columns_per_font |-> <<>>, width |-> 0, connection |-> "Usb"]
    /\ outcome = Ok(<<>>) /\ transport = <<>> /\ step = "idle"
IdleFormat == source = <<>> /\ width = 0 /\ split = <<>> /\ fcall = "none"
IdleTable ==
    /\ table_options = [header_division_pattern |-> Some(<<"-">>)]
    /\ table_header = <<>> /\ table_rows = <<>> /\ overflow_checks = TRUE
    /\ table_out = Good(<<>>) /\ tcall = "none"
IdlePrinter ==
    /\ printer = PrinterNew([columns_per_font |-> "FontA" :> 0, width |-> 0,
                             connection |-> "Terminal"])
    /\ usb_writes = <<>> /\ stdout = <<>>
    /\ presult = Ok(<<>>) /\ pcall = "none" /\ parg = <<>>
IdleImage ==
    /\ escpos_image = EscposImage(8, 8, TRUE, <<>>) /\ fed = <<>> /\ fed_width = 0
    /\ icall = "none" /\ persisted = None /\ loaded = None

vars_merge == <<lhs, rhs, merged, calls>>
vars_add == <<x, y, sum, before, op>>
vars_print == <<instruction, print_data, printer_profile, outcome, transport, step>>
vars_format == <<source, width, split, fcall>>
vars_table == <<table_options, table_header, table_rows, overflow_checks, table_out, tcall>>
vars_image == <<escpos_image, fed, fed_width, icall, persisted, loaded>>
vars_printer == <<printer, usb_writes, stdout, presult, pcall, parg>>

(***************************************************************************)
(* SpecMerge: two PrintData are built and merged.                          *)
(***************************************************************************)
Strings2 == {<<"x">>, <<"y">>}
DuoRowsU == {<< <<A, B>> >>, << <<B, A>>, <<A, A>> >>}
TrioRowsU == {<< <<A, B, A>> >>, << <<B, A, B>>, <<A, A, A>> >>}
QuadRowsU == {<< <<A, B, A, B>> >>, << <<B, A, B, A>>, <<A, A, A, A>> >>}

InitMerge ==
    /\ lhs = PrintDataBuilderDefault /\ rhs = PrintDataBuilderDefault
    /\ merged = None /\ calls = 0
    /\ IdleAdd /\ IdlePrint /\ IdleFormat /\ IdleTable /\ IdleImage /\ IdlePrinter

\* One builder call on the left (to_lhs) or the right operand.
Built(to_lhs, category, k, v) ==
    /\ ~merged.some
    /\ calls < MaxBuilderCalls
    /\ calls' = calls + 1
    /\ IF to_lhs
       THEN lhs' = BuilderAdd(lhs, category, k, v) /\ rhs' = rhs
       ELSE rhs' = BuilderAdd(rhs, category, k, v) /\ lhs' = lhs
    /\ UNCHANGED <<merged, vars_add, vars_print, vars_format,
                   vars_table, vars_image, vars_printer>>

\* PrintDataBuilder::replacement
Replacement ==
    \E to_lhs \in BOOLEAN, k \in {A, B}, v \in Strings2 : Built(to_lhs, "replacements", k, v)

\* PrintDataBuilder::add_duo_table
AddDuoTable ==
    \E to_lhs \in BOOLEAN, k \in {T1, T2}, v \in DuoRowsU : Built(to_lhs, "duo_tables", k, v)

\* PrintDataBuilder::add_trio_table
AddTrioTable ==
    \E to_lhs \in BOOLEAN, k \in {T1, T2}, v \in TrioRowsU : Built(to_lhs, "trio_tables", k, v)

\* PrintDataBuilder::add_quad_table
AddQuadTable ==
    \E to_lhs \in BOOLEAN, k \in {T1, T2}, v \in QuadRowsU : Built(to_lhs, "quad_tables", k, v)

\* PrintDataBuilder::add_qr_code
AddQrCode ==
    \E to_lhs \in BOOLEAN, k \in {T1, T2}, v \in Strings2 : Built(to_lhs, "qr_contents", k, v)

\* lhs.build().merge(rhs.build())
Merged ==
    /\ ~merged.some
    /\ merged' = Some(Merge(lhs, rhs))
    /\ UNCHANGED <<lhs, rhs, calls, vars_add, vars_print, vars_format,
                   vars_table, vars_image, vars_printer>>

NextMerge ==
    \/ Replacement
    \/ AddDuoTable
    \/ AddTrioTable
    \/ AddQuadTable
    \/ AddQrCode
    \/ Merged

SpecMerge == InitMerge /\ [][NextMerge]_vars

\* C1: after a merge, every category holds the keys of either operand, and a
\* key of both operands keeps the value of the left operand (self).
MergeIsLeftBiased ==
    merged.some =>
        \A c \in Categories :
            LET l == UnwrapOrNew(lhs[c])
                r == UnwrapOrNew(rhs[c])
                m == UnwrapOrNew(merged.val[c])
            IN  /\ DOMAIN m = DOMAIN l \cup DOMAIN r
                /\ \A k \in DOMAIN l \cap DOMAIN r : m[k] = l[k]

(***************************************************************************)
(* SpecAdd: instructions are combined with + and +=.                       *)
(***************************************************************************)
OperandU ==
    {Cut, VSpace(1), Command(Cmd("Reset")), QRCode(T1),
     Compound(<<>>), Compound(<<Cut>>), Compound(<<VSpace(1), Cut>>),
     Compound(<<Compound(<<Cut, Cut>>)>>)}

InitAdd ==
    /\ x \in OperandU /\ y \in OperandU
    /\ sum = Cut /\ before = Cut /\ op = "none"
    /\ IdleMerge /\ IdlePrint /\ IdleFormat /\ IdleTable /\ IdleImage /\ IdlePrinter

\* sum = x + y
Added ==
    /\ op = "none"
    /\ sum' = Add(x, y)
    /\ op' = "add"
    /\ UNCHANGED <<x, y, before, vars_merge, vars_print, vars_format,
                   vars_table, vars_image, vars_printer>>

\* x += y
AddAssigned ==
    /\ op = "none"
    /\ before' = x
    /\ x' = AddAssign(x, y)
    /\ op' = "add_assign"
    /\ UNCHANGED <<y, sum, vars_merge, vars_print, vars_format,
                   vars_table, vars_image, vars_printer>>

\* The result becomes the left operand of a further addition.
Continued ==
    /\ op # "none"
    /\ LET acc == IF op = "add" THEN sum ELSE x
       IN  /\ Len(acc.instructions) < MaxChildren
           /\ x' = acc
    /\ y' \in OperandU
    /\ op' = "none"
    /\ UNCHANGED <<sum, before, vars_merge, vars_print, vars_format,
                   vars_table, vars_image, vars_printer>>

NextAdd ==
    \/ Added
    \/ AddAssigned
    \/ Continued

SpecAdd == InitAdd /\ [][NextAdd]_vars

\* The children of an instruction as the sum sees them: the list of a
\* Compound, and the instruction itself otherwise.
Children(i) == IF i.kind = "Compound" THEN i.instructions ELSE <<i>>

\* C5: x + y is the Compound of the children of x followed by those of y, +
\* is associative, and x += y leaves in x what x + y gives.
AddFlattens ==
    /\ op = "add" =>
        /\ sum = Compound(Children(x) \o Children(y))
        /\ \A z \in OperandU : Add(sum, z) = Add(x, Add(y, z))
    /\ op = "add_assign" =>
        /\ x = Compound(Children(before) \o Children(y))
        /\ x = Add(before, y)

\* C5: Compound([A, B]) + C has been computed, for a plain C.
AddFlattensWitness ==
    /\ op = "add"
    /\ IsCompound(x) /\ Len(x.instructions) = 2
    /\ ~IsCompound(y)
    /\ Len(sum.instructions) = 3

(***************************************************************************)
(* SpecPrint: one instruction is serialized, or printed, against a         *)
(* profile and the data of the print.                                      *)
(***************************************************************************)
Profile(columns_per_font, connection) ==
    [columns_per_font |-> columns_per_font, width |-> 24, connection |-> connection]

ProfileU ==
    {Profile(<<>>, "Usb"), Profile("FontA" :> MaxColumns, "Terminal"),
     Profile(("FontA" :> MaxColumns) @@ ("FontB" :> 3), "Usb")}
    \cup {Profile("FontA" :> w, "Usb") : w \in 2..MaxColumns}

ReplacementsU ==
    {None, Some(A :> <<"x">>), Some((A :> B) @@ (B :> <<"c">>)),
     Some((A :> <<"x">>) @@ (AB :> <<"y">>)), Some(A :> <<Euro>>)}

Tables(name) ==
    [duo_tables |-> Some(name :> << <<A, B>>, <<AB, A>> >>),
     trio_tables |-> Some(name :> << <<A, B, A>>, <<AB, A, B>> >>),
     quad_tables |-> Some(name :> << <<B, A, B, A>>, <<A, AB, A, B>> >>)]

TablesU ==
    {[duo_tables |-> None, trio_tables |-> None, quad_tables |-> None],
     Tables(T1), Tables(T2)}

QrContentsU == {None, Some(T1 :> A), Some(T2 :> A)}

PrintDataU ==
    {[replacements |-> r, duo_tables |-> t.duo_tables, trio_tables |-> t.trio_tables,
      quad_tables |-> t.quad_tables, qr_contents |-> q] :
        r \in ReplacementsU, t \in TablesU, q \in QrContentsU}

ContentU == {A, AB, <<"a", " ", "b">>, <<"a", "b", " ", "a", "b", "a">>}

KeysU == {None, Some(<<A>>), Some(<<A, B>>), Some(<<B, A>>), Some(<<A, AB>>), Some(<<AB, A>>)}

Justifications == {"Left", "Right", "Center"}

TextU ==
    {Text(c, FALSE, "FontA", j, r) : c \in ContentU, j \in Justifications, r \in KeysU}
    \cup {Text(c, FALSE, "FontB", "Left", r) : c \in ContentU, r \in KeysU}
    \cup {Text(c, TRUE, "FontA", "Left", r) : c \in ContentU, r \in KeysU}

TableU ==
    {DuoTable(T1, h, f) : h \in {<<A, B>>, <<AB \o AB, A>>, <<<<Euro>>, A>>},
                          f \in {"FontA", "FontB"}}
    \cup {TrioTable(T1, h) : h \in {<<A, B, A>>, <<AB \o AB, A, A>>}}
    \cup {QuadTable(T1, h) : h \in {<<A, B, A>>, <<AB \o AB, A, A>>}}

ImageU ==
    {Image(EscposImage(8, 8, TRUE, <<>>)),
     Image(CacheFor(EscposImage(8, 16, TRUE, <<>>), 24))}

\* The children the compounds are made of.
ChildU ==
    {Cut, VSpace(2), QRCode(T1), DuoTable(T1, <<A, B>>, "FontA"),
     TrioTable(T1, <<A, B, A>>),
     Text(AB, FALSE, "FontA", "Left", None),
     Text(AB, FALSE, "FontA", "Left", Some(<<A, B>>)),
     Text(AB, TRUE, "FontA", "Left", None)}

CompoundU ==
    {Compound(<<c1, c2>>) : c1 \in ChildU, c2 \in ChildU}
    \cup {Compound(<<>>), Compound(<<Cut, Compound(<<VSpace(2), QRCode(T1)>>), Cut>>)}

InstructionU ==
    {Cut, VSpace(2), Command(Cmd("Reset")), QRCode(T1)}
    \cup ImageU \cup TextU \cup TableU \cup CompoundU

\* Every variant of Command, as an instruction.
CommandU ==
    {Command(Cmd(name)) :
        name \in {"Cut", "Reset", "PrintModeDefault", "UnderlineOff", "Underline1Dot",
                  "Underline2Dot", "BoldOn", "BoldOff", "Bitmap", "NoLine", "ResetLine"}}
    \cup {Command(SelectFont(Fonts[i])) : i \in 1..Len(Fonts)}
    \cup {Command(SelectCharset(Charsets[i])) : i \in 1..Len(Charsets)}
    \cup {Command(SelectCodeTable(t)) : t \in {"USA", "Latin2"}}

\* Tables of three and four columns on a line of WideColumns: a third cell
\* wider than the first, and a middle cell wider than what the sides leave.
WideTables(name) ==
    {[replacements |-> None, duo_tables |-> None, qr_contents |-> None,
      trio_tables |-> Some(name :> << row >>),
      quad_tables |-> Some(name :> << <<B>> \o row >>)] :
        row \in {<<A, B, AB \o A>>, <<AB, AB \o AB \o AB, AB>>, <<AB \o AB, A, A>>}}

WideTableU == {TrioTable(T1, <<A, B, A>>), QuadTable(T1, <<A, B, A>>)}

InitPrint ==
    /\ \/ /\ instruction \in InstructionU
          /\ print_data \in PrintDataU
          /\ printer_profile \in ProfileU
       \/ /\ instruction \in WideTableU
          /\ print_data \in WideTables(T1)
          /\ printer_profile = Profile("FontA" :> WideColumns, "Usb")
       \/ /\ instruction \in CommandU
          /\ print_data \in {d \in PrintDataU : \A c \in Categories : d[c] = None}
          /\ printer_profile = Profile("FontA" :> MaxColumns, "Usb")
    /\ outcome = Ok(<<>>) /\ transport = <<>> /\ step = "idle"
    /\ IdleMerge /\ IdleAdd /\ IdleFormat /\ IdleTable /\ IdleImage /\ IdlePrinter

\* instruction.to_vec(&printer_profile, &print_data)
Serialized ==
    /\ step = "idle"
    /\ outcome' = ToVec(instruction, printer_profile, print_data)
    /\ step' = "serialized"
    /\ UNCHANGED <<instruction, print_data, printer_profile, transport,
                   vars_merge, vars_add, vars_format,
                   vars_table, vars_image, vars_printer>>

\* printer.instruction(&instruction, &print_data), printer.rs; Printer::new
\* gives a printer only for a profile with a width for FontA.
Printed ==
    /\ step = "idle"
    /\ "FontA" \in DOMAIN printer_profile.columns_per_font
    /\ \E accepted \in BOOLEAN :
        LET r == PrinterInstruction(instruction, printer_profile, print_data,
                                    accepted, transport)
        IN  outcome' = r.result /\ transport' = r.sink
    /\ step' = "printed"
    /\ UNCHANGED <<instruction, print_data, printer_profile,
                   vars_merge, vars_add, vars_format,
                   vars_table, vars_image, vars_printer>>

\* printer.instruction(&instruction, &print_data), printer/usb_printer.rs
UsbPrinted ==
    /\ step = "idle"
    /\ printer_profile.connection = "Usb"
    /\ \E accepted \in BOOLEAN :
        LET r == UsbPrinterInstruction(instruction, printer_profile, print_data,
                                       accepted, transport)
        IN  outcome' = r.result /\ transport' = r.sink
    /\ step' = "printed"
    /\ UNCHANGED <<instruction, print_data, printer_profile,
                   vars_merge, vars_add, vars_format,
                   vars_table, vars_image, vars_printer>>

NextPrint ==
    \/ Serialized
    \/ Printed
    \/ UsbPrinted

SpecPrint == InitPrint /\ [][NextPrint]_vars

\* C2: a print whose serialization fails writes nothing and returns the
\* error of the serialization; a print whose serialization succeeds hands the
\* whole buffer to the transport of a USB printer in one write.
NoPartialPrint ==
    step = "printed" =>
        LET content == ToVec(instruction, printer_profile, print_data)
        IN  /\ content.tag = "Err" => transport = <<>> /\ outcome = content
            /\ content.tag = "Ok" /\ printer_profile.connection = "Usb" =>
                   transport = <<content.bytes>>

\* C3: a serialization ends with a byte buffer or an Error value.
ToVecNeverPanics == step = "serialized" => outcome.tag \in {"Ok", "Err"}

\* The orders in which the elements of a sequence without repetition can be
\* visited.
Orders(keys) ==
    {p \in [1..Len(keys) -> {keys[i] : i \in 1..Len(keys)}] :
        \A i, j \in 1..Len(keys) : i # j => p[i] # p[j]}

RECURSIVE Variants(_)
\* The instructions that differ from ins at most in the iteration order of
\* the replacement sets (what a clone through serde, or another run, holds).
Variants(ins) ==
    CASE ins.kind = "Text" /\ ins.replacements.some ->
            {[ins EXCEPT !.replacements = Some(p)] : p \in Orders(ins.replacements.val)}
      [] ins.kind = "Compound" ->
            LET n == Len(ins.instructions)
                all == UNION {Variants(ins.instructions[i]) : i \in 1..n}
            IN  {Compound(cs) : cs \in {c \in [1..n -> all] :
                                    \A i \in 1..n : c[i] \in Variants(ins.instructions[i])}}
      [] OTHER -> {ins}

\* C4: the bytes of a successful serialization do not depend on the order in
\* which the replacement keys are visited.
ToVecIgnoresKeyOrder ==
    step = "serialized" /\ outcome.tag = "Ok" =>
        \A v \in Variants(instruction) :
            ToVec(v, printer_profile, print_data) = outcome

\* The result of each child of a Compound, serialized on its own.
ChildResults(ins) ==
    [i \in 1..Len(ins.instructions) |->
        ToVec(ins.instructions[i], printer_profile, print_data)]

RECURSIVE Concat(_)
Concat(results) == IF results = <<>> THEN <<>> ELSE Head(results).bytes \o Concat(Tail(results))

\* C6: a Compound whose children all succeed gives their bytes in list order;
\* otherwise it ends as its leftmost child that does not succeed ends, with no
\* bytes.
CompoundConcatenates ==
    step = "serialized" /\ IsCompound(instruction) =>
        LET results == ChildResults(instruction)
            failing == {i \in 1..Len(results) : results[i].tag # "Ok"}
        IN  IF failing = {}
            THEN outcome = Ok(Concat(results))
            ELSE /\ outcome = results[CHOOSE i \in failing : \A j \in failing : i <= j]
                 /\ outcome.bytes = <<>>

\* C6: a Compound was serialized whose first child gave bytes and whose second
\* child failed with an error.
CompoundConcatenatesWitness ==
    /\ step = "serialized" /\ IsCompound(instruction)
    /\ Len(instruction.instructions) = 2
    /\ ChildResults(instruction)[1].tag = "Ok"
    /\ ChildResults(instruction)[1].bytes # <<>>
    /\ ChildResults(instruction)[2].tag = "Err"
    /\ outcome.tag = "Err"

RECURSIVE Substitute(_, _, _, _)
\* The string s with every occurrence of a key replaced by the value of the
\* key, read left to right; where several keys occur, the first of keys wins,
\* and a value put in is not read again.
Substitute(s, i, keys, map) ==
    IF i > Len(s) THEN <<>>
    ELSE LET hits == {j \in 1..Len(keys) : StartsWithAt(s, i, keys[j])}
         IN  IF hits = {} THEN <<s[i]>> \o Substitute(s, i + 1, keys, map)
             ELSE LET k == keys[CHOOSE j \in hits : \A h \in hits : j <= h]
                  IN  map[k] \o Substitute(s, i + Len(k), keys, map)

\* C7: a Text with a declared key that the data lack ends with
\* NoReplacementFound of such a key and no bytes; with every declared key
\* supplied, it prints the content with every occurrence of each key replaced
\* by the value of the key.
TextReplacesOrFails ==
    step = "serialized" /\ instruction.kind = "Text" /\ instruction.replacements.some =>
        LET declared == instruction.replacements.val
            map == UnwrapOrNew(print_data["replacements"])
            absent == {declared[i] : i \in {j \in 1..Len(declared) : declared[j] \notin DOMAIN map}}
        IN  IF absent # {}
            THEN /\ outcome.tag = "Err" /\ outcome.error = "NoReplacementFound"
                 /\ outcome.arg \in absent
                 /\ outcome.bytes = <<>>
            ELSE \E p \in Orders(declared) :
                    outcome = ToVec(Text(Substitute(instruction.content, 1, p, map),
                                         instruction.markdown, instruction.font,
                                         instruction.justification, None),
                                    printer_profile, print_data)

\* The category a table instruction reads and the font whose width it uses.
CategoryOf(ins) ==
    CASE ins.kind = "DuoTable" -> "duo_tables"
      [] ins.kind = "TrioTable" -> "trio_tables"
      [] ins.kind = "QuadTable" -> "quad_tables"

FontOf(ins) == IF ins.kind = "DuoTable" THEN ins.font ELSE "FontA"

\* C8: with a width for its font, a table instruction ends with NoTables when
\* the data lack its category and with NoTableFound(name) when the category
\* lacks its name; a QRCode ends with NoQrContents and NoQrContent(name) in
\* the same way.  No bytes are returned.
MissingDataIsReported ==
    step = "serialized" =>
        /\ instruction.kind \in {"DuoTable", "TrioTable", "QuadTable"}
           /\ FontOf(instruction) \in DOMAIN printer_profile.columns_per_font =>
               LET tables == print_data[CategoryOf(instruction)]
               IN  /\ ~tables.some => outcome = Err("NoTables", <<>>)
                   /\ tables.some /\ instruction.name \notin DOMAIN tables.val =>
                          outcome = Err("NoTableFound", instruction.name)
        /\ instruction.kind = "QRCode" =>
               LET contents == print_data["qr_contents"]
               IN  /\ ~contents.some => outcome = Err("NoQrContents", <<>>)
                   /\ contents.some /\ instruction.name \notin DOMAIN contents.val =>
                          outcome = Err("NoQrContent", instruction.name)

(***************************************************************************)
(* SpecFormat: a Formatter of some width formats a text.                   *)
(***************************************************************************)
SourceChars == {"a", " ", "\n", Euro}

SourceU == UNION {[1..n -> SourceChars] : n \in 0..MaxSourceLen}

InitFormat ==
    /\ source \in SourceU
    /\ width \in 0..MaxFormatWidth
    /\ split = <<>> /\ fcall = "none"
    /\ IdleMerge /\ IdleAdd /\ IdlePrint /\ IdleTable /\ IdleImage /\ IdlePrinter

\* Formatter::new(width).space_split(source)
SpaceSplitCalled ==
    /\ fcall = "none"
    /\ split' = SpaceSplit(source, width)
    /\ fcall' = "space_split"
    /\ UNCHANGED <<source, width, vars_merge, vars_add, vars_print,
                   vars_table, vars_image, vars_printer>>

NextFormat == SpaceSplitCalled

SpecFormat == InitFormat /\ [][NextFormat]_vars

\* No word of the text has more than w characters.
WordsFit(text, w) ==
    \A i \in 1..Len(SplitWhitespace(text)) : Len(SplitWhitespace(text)[i]) <= w

EndsWithNewline(text) == text # <<>> /\ text[Len(text)] = "\n"

\* C9: when no word of the source is longer than the width, no line of the
\* split text is longer than the width.
SplitLinesFit ==
    fcall = "space_split" /\ WordsFit(source, width) =>
        \A i \in 1..Len(SplitLines(split)) : Len(SplitLines(split)[i]) <= width

\* C10: when no word of the source is longer than the width, the split text
\* ends with a newline exactly when the source does.
SplitMirrorsTrailingNewline ==
    fcall = "space_split" /\ WordsFit(source, width) =>
        (EndsWithNewline(split) <=> EndsWithNewline(source))

(***************************************************************************)
(* SpecTable: a Formatter of some width and some table options lays out a  *)
(* table of two or of three columns.                                       *)
(***************************************************************************)
DefaultTableOptions == [header_division_pattern |-> Some(<<"-">>)]

TableOptionsU ==
    {[header_division_pattern |-> p] :
        p \in {None, Some(<<"-">>), Some(<<".", "-">>), Some(<<>>), Some(<<Euro>>)}}

\* A cell of n characters c.
Cell(c, n) == Repeat(c, n)

DuoCells(c) ==
    {Cell(c, n) : n \in {0, 1, 2, 4, MaxCellLen}} \cup {<<Euro>>, <<c, Euro, c, c>>}

TrioCells(c) == {Cell(c, n) : n \in {0, 1, 4, MaxCellLen}} \cup {<<Euro>>}

DuoRowU == {<<first, second>> : first \in DuoCells("a"), second \in DuoCells("b")}

TrioRowU ==
    {<<first, second, third>> :
        first \in TrioCells("a"), second \in TrioCells("b"), third \in TrioCells("c")}

DuoTablesU ==
    {<<>>} \cup {<<row>> : row \in DuoRowU}
    \cup {<< <<Cell("a", 2), Cell("b", 1)>>, <<Cell("a", 1), Cell("b", 4)>> >>}

TrioTablesU ==
    {<<>>}
    \cup {<< <<Cell("a", l), Cell("b", m), Cell("c", r)>> >> :
             l \in {1, MaxCellLen}, m \in {0, 4}, r \in {0, 4, MaxCellLen}}
    \cup {<< <<Cell("a", 2), Cell("b", 1), Cell("c", 1)>>,
             <<Cell("a", 1), Cell("b", 2), Cell("c", 2)>> >>}

TrioWidths == {0, 4, 11, 12, MaxTableWidth}

InitTable ==
    /\ \/ /\ table_options = DefaultTableOptions
          /\ \/ /\ width \in 0..MaxTableWidth
                /\ table_header \in DuoRowU /\ table_rows \in DuoTablesU
             \/ /\ width \in TrioWidths
                /\ table_header \in TrioRowU /\ table_rows \in TrioTablesU
       \/ /\ table_options \in TableOptionsU
          /\ width \in 0..MaxTableWidth
          /\ \/ /\ table_header = <<Cell("a", 2), Cell("b", 1)>>
                /\ table_rows \in {<<>>, << <<Cell("a", 1), Cell("b", 2)>> >>}
             \/ /\ table_header = <<Cell("a", 1), Cell("b", 1), Cell("c", 1)>>
                /\ table_rows \in {<<>>, << <<Cell("a", 1), Cell("b", 1), Cell("c", 1)>> >>}
    /\ overflow_checks \in BOOLEAN
    /\ table_out = Good(<<>>) /\ tcall = "none"
    /\ source = <<>> /\ split = <<>> /\ fcall = "none"
    /\ IdleMerge /\ IdleAdd /\ IdlePrint /\ IdleImage /\ IdlePrinter

\* formatter.duo_table(header, rows)
DuoTableCalled ==
    /\ tcall = "none" /\ Len(table_header) = 2
    /\ table_out' = FormatterDuoTable(table_options, width, table_header, table_rows,
                                      overflow_checks)
    /\ tcall' = "duo_table"
    /\ UNCHANGED <<table_options, table_header, table_rows, overflow_checks,
                   vars_format, vars_merge, vars_add, vars_print, vars_image, vars_printer>>

\* formatter.trio_table(header, rows)
TrioTableCalled ==
    /\ tcall = "none" /\ Len(table_header) = 3
    /\ table_out' = FormatterTrioTable(table_options, width, table_header, table_rows,
                                       overflow_checks)
    /\ tcall' = "trio_table"
    /\ UNCHANGED <<table_options, table_header, table_rows, overflow_checks,
                   vars_format, vars_merge, vars_add, vars_print, vars_image, vars_printer>>

NextTable ==
    \/ DuoTableCalled
    \/ TrioTableCalled

SpecTable == InitTable /\ [][NextTable]_vars

\* The lines of a text: what stands before, between and after its newlines.
Lines(text) ==
    LET breaks == {i \in 1..Len(text) : text[i] = "\n"}
        Break(k) == IF k = 0 THEN 0
                    ELSE IF k > Cardinality(breaks) THEN Len(text) + 1
                    ELSE CHOOSE i \in breaks : Cardinality({j \in breaks : j < i}) = k - 1
    IN  [k \in 1..(Cardinality(breaks) + 1) |->
            SubSeq(text, Break(k - 1) + 1, Break(k) - 1)]

\* The header and the rows of the table, in the order they are printed.
TableEntries == <<table_header>> \o table_rows

\* The lines of the printed table that hold the header and the rows: all
\* lines but the separator, when there is one.
EntryLines ==
    LET lines == Lines(table_out.s)
    IN  IF table_options.header_division_pattern.some
        THEN [i \in 1..(Len(lines) - 2) |-> IF i = 1 THEN lines[1] ELSE lines[i + 1]]
        ELSE [i \in 1..(Len(lines) - 1) |-> lines[i]]

\* A line of w characters: the left cell from the first column, the right cell
\* ending in the last.
DuoLine(first, second, w) == first \o Spaces(w - Len(first) - Len(second)) \o second

RECURSIVE DuoLines(_, _)
DuoLines(entries, w) ==
    IF entries = <<>> THEN <<>>
    ELSE <<DuoLine(Head(entries)[1], Head(entries)[2], w)>> \o DuoLines(Tail(entries), w)

\* Every entry of the table fits: its two cells take less than w bytes (and
\* so less than w characters).
DuoFits ==
    \A i \in 1..Len(TableEntries) :
        ByteLen(TableEntries[i][1]) + ByteLen(TableEntries[i][2]) < width

\* C11: a table of two columns whose header and rows all fit, laid out with
\* the table options of Formatter::new, is the header line, the separator line
\* and one line per row in input order; each header and row line has exactly
\* W characters, the left cell first, at least one space, the right cell last.
DuoTableAligns ==
    tcall = "duo_table" /\ table_options = DefaultTableOptions /\ DuoFits =>
        /\ table_out.ok
        /\ Lines(table_out.s) =
               <<DuoLine(table_header[1], table_header[2], width), Repeat("-", width)>>
               \o DuoLines(table_rows, width) \o << <<>> >>

\* Every cell of the table is made of one-byte characters.
OneByteCells ==
    \A i \in 1..Len(TableEntries) : \A j \in 1..Len(TableEntries[i]) :
        ByteLen(TableEntries[i][j]) = Len(TableEntries[i][j])

\* C12: with W >= 8 and the table options of Formatter::new, the line of a
\* header or row whose cells do not fit (they hold W characters or more, all
\* of one byte) has exactly W characters, with a space between the two cells.
DuoTableShortensToWidth ==
    tcall = "duo_table" /\ table_options = DefaultTableOptions /\ width >= 8
    /\ OneByteCells =>
        /\ table_out.ok
        /\ \A i \in 1..Len(TableEntries) :
               Len(TableEntries[i][1]) + Len(TableEntries[i][2]) >= width =>
                   /\ Len(EntryLines[i]) = width
                   /\ \E k \in 1..Len(EntryLines[i]) : EntryLines[i][k] = " "

\* The cell printed first on a line (up to the first space) and the cell
\* printed last (after the last space); the cells hold no spaces themselves.
FirstCell(line) ==
    IF \E k \in 1..Len(line) : line[k] = " "
    THEN Take(line, (CHOOSE k \in 1..Len(line) :
                        line[k] = " " /\ \A j \in 1..(k - 1) : line[j] # " ") - 1)
    ELSE line

LastCell(line) ==
    IF \E k \in 1..Len(line) : line[k] = " "
    THEN Drop(line, CHOOSE k \in 1..Len(line) :
                        line[k] = " " /\ \A j \in (k + 1)..Len(line) : line[j] # " ")
    ELSE <<>>

\* printed is cell itself, or, when it is shorter than cell, the characters
\* cell starts with, the last of them replaced by marker when there is one.
ShortenedWith(printed, cell, marker) ==
    Len(printed) < Len(cell) =>
        IF marker = <<>> THEN printed = Take(cell, Len(printed))
        ELSE /\ printed # <<>>
             /\ printed = Take(cell, Len(printed) - 1) \o marker

\* C13: in a table of two columns a header cell that was shortened ends with
\* '.', which stands in the place of its last character; a row cell that was
\* shortened is a plain prefix of the cell.
DuoTableMarksHeaderOnly ==
    tcall = "duo_table" /\ table_out.ok =>
        \A i \in 1..Len(TableEntries) :
            LET marker == IF i = 1 THEN <<".">> ELSE <<>>
            IN  /\ ShortenedWith(FirstCell(EntryLines[i]), TableEntries[i][1], marker)
                /\ ShortenedWith(LastCell(EntryLines[i]), TableEntries[i][2], marker)

\* C13: a table was laid out in which both header cells and both cells of a
\* row were shortened.
DuoTableMarksHeaderOnlyWitness ==
    /\ tcall = "duo_table" /\ table_out.ok /\ Len(table_rows) >= 1
    /\ \A i \in 1..2 :
        /\ Len(FirstCell(EntryLines[i])) < Len(TableEntries[i][1])
        /\ Len(LastCell(EntryLines[i])) < Len(TableEntries[i][2])
        /\ FirstCell(EntryLines[i]) # <<>>

\* The header and the rows fit the width with room to spare, so that no
\* cell is shortened: the widest cells of the columns, in bytes, and one
\* space between two columns take less than the width, and no cell is empty.
EntriesFit ==
    LET columns == Len(TableEntries[1])
        Widest(j) == CHOOSE m \in {ByteLen(TableEntries[i][j]) : i \in 1..Len(TableEntries)} :
                        \A i \in 1..Len(TableEntries) : ByteLen(TableEntries[i][j]) <= m
    IN  /\ \A i \in 1..Len(TableEntries) :
               \A j \in 1..columns : TableEntries[i][j] # <<>>
        /\ Widest(1) + Widest(2) + (IF columns = 3 THEN Widest(3) + 1 ELSE 0) + 1 < width

\* C17: a table whose entries fit has, when a header division pattern is
\* set, right after the header line one line that is the pattern repeated and
\* cut to exactly W characters, and has no such line when the pattern is None.
SeparatorFillsWidth ==
    tcall # "none" /\ EntriesFit =>
        /\ table_out.ok
        /\ LET lines == Lines(table_out.s)
               pattern == table_options.header_division_pattern
           IN  IF pattern.some
               THEN /\ Len(lines) = Len(TableEntries) + 2
                    /\ Len(lines[2]) = width
                    /\ lines[2] = Take(RepeatString(pattern.val, width), width)
               ELSE Len(lines) = Len(TableEntries) + 1

\* The text holds the cell with blanks on both sides that differ by one at
\* most.
Centred(text, cell) ==
    \E l \in 0..Len(text) :
        /\ text = Spaces(l) \o cell \o Spaces(Len(text) - l - Len(cell))
        /\ Len(text) - l - Len(cell) - l \in {-1, 0, 1}

\* The three columns fit: the longest cells of the columns and two spaces
\* take less than the width.
TrioFits ==
    ColumnMax(TableEntries, 1, 1, 0) + ColumnMax(TableEntries, 1, 2, 0)
        + ColumnMax(TableEntries, 1, 3, 0) + 2 < width

\* C14: a table of three columns that fits, laid out with the table options
\* of Formatter::new, has header and row lines of exactly W characters that
\* share their column boundaries: the first cell from the first column, the
\* third cell ending in the last, the second centred in the slot between.
TrioTableAligns ==
    tcall = "trio_table" /\ table_options = DefaultTableOptions /\ TrioFits =>
        /\ table_out.ok
        /\ \E left \in 0..width, right \in 0..width :
            \A i \in 1..Len(TableEntries) :
                LET line == EntryLines[i]
                    entry == TableEntries[i]
                IN  /\ Len(line) = width
                    /\ left + right + 2 <= width
                    /\ Take(line, left + 1) = PadRight(entry[1], left) \o <<" ">>
                    /\ Drop(line, width - right - 1) = <<" ">> \o PadLeft(entry[3], right)
                    /\ Centred(Take(Drop(line, left + 1), width - left - right - 2),
                               entry[2])

\* C15: with W >= 12, every header and row line that a table of three columns
\* lays out has exactly W characters.
TrioTableKeepsWidth ==
    tcall = "trio_table" /\ width >= 12 /\ table_out.ok =>
        \A i \in 1..Len(TableEntries) : Len(EntryLines[i]) = width

\* The cell printed in the middle of a line: what stands between the first
\* and the last cell, without the blanks.
MiddleCell(line) ==
    LET inner == Take(Drop(line, Len(FirstCell(line))),
                      Len(line) - Len(FirstCell(line)) - Len(LastCell(line)))
        filled == {k \in 1..Len(inner) : inner[k] # " "}
    IN  IF filled = {} THEN <<>>
        ELSE SubSeq(inner, CHOOSE k \in filled : \A j \in filled : k <= j,
                           CHOOSE k \in filled : \A j \in filled : k >= j)

\* C16: in a table of three columns of width W >= 12 every cell that was
\* shortened ends with '.'.
TrioTableMarksShortened ==
    tcall = "trio_table" /\ width >= 12 /\ table_out.ok =>
        \A i \in 1..Len(TableEntries) :
            /\ ShortenedWith(FirstCell(EntryLines[i]), TableEntries[i][1], <<".">>)
            /\ ShortenedWith(MiddleCell(EntryLines[i]), TableEntries[i][2], <<".">>)
            /\ ShortenedWith(LastCell(EntryLines[i]), TableEntries[i][3], <<".">>)

(***************************************************************************)
(* SpecImage: one EscposImage is cached for printer widths, fed to a       *)
(* printer (directly or as an Image instruction), serialized and read      *)
(* back.                                                                   *)
(***************************************************************************)
ImageWidths == {8, 16, MaxImageWidth}

\* The widths feed is called with: those of cache_for, no width at all and a
\* width of more than one byte.
FeedWidths == ImageWidths \cup {0, WideImageWidth}

ScaleU == {128, 255}

InitImage ==
    /\ escpos_image \in {EscposImageNew(b.im_width, b.im_height, b.ink, scale) :
                            b \in BitmapU, scale \in ScaleU}
    /\ fed = <<>> /\ fed_width = 0 /\ icall = "none"
    /\ persisted = None /\ loaded = None
    /\ IdleMerge /\ IdleAdd /\ IdlePrint /\ IdleFormat /\ IdleTable /\ IdlePrinter

\* EscposImage::cache_for
CacheForCalled ==
    /\ \E w \in ImageWidths : escpos_image' = CacheFor(escpos_image, w)
    /\ icall' = "cache_for"
    /\ UNCHANGED <<fed, fed_width, persisted, loaded>>
    /\ UNCHANGED <<vars_merge, vars_add, vars_print, vars_format, vars_table, vars_printer>>

\* EscposImage::feed
FeedCalled ==
    /\ \E w \in FeedWidths :
        /\ fed' = Feed(escpos_image, w)
        /\ fed_width' = w
    /\ icall' = "feed"
    /\ UNCHANGED <<escpos_image, persisted, loaded>>
    /\ UNCHANGED <<vars_merge, vars_add, vars_print, vars_format, vars_table, vars_printer>>

\* Instruction::to_vec of Image{image} for a profile of the given width
ImageToVec ==
    /\ \E w \in ImageWidths :
        /\ fed' = ToVec(Image(escpos_image), [Profile(<<>>, "Usb") EXCEPT !.width = w],
                        PrintDataBuilderDefault).bytes
        /\ fed_width' = w
    /\ icall' = "to_vec"
    /\ UNCHANGED <<escpos_image, persisted, loaded>>
    /\ UNCHANGED <<vars_merge, vars_add, vars_print, vars_format, vars_table, vars_printer>>

\* impl Serialize for EscposImage
SerializeCalled ==
    /\ persisted' = Some(Serialize(escpos_image))
    /\ icall' = "serialize"
    /\ UNCHANGED <<escpos_image, fed, fed_width, loaded>>
    /\ UNCHANGED <<vars_merge, vars_add, vars_print, vars_format, vars_table, vars_printer>>

\* impl Deserialize for EscposImage, on what was serialized
DeserializeCalled ==
    /\ persisted.some
    /\ \E l \in Deserialize(persisted.val) : loaded' = Some(l)
    /\ icall' = "deserialize"
    /\ UNCHANGED <<escpos_image, fed, fed_width, persisted>>
    /\ UNCHANGED <<vars_merge, vars_add, vars_print, vars_format, vars_table, vars_printer>>

NextImage ==
    \/ CacheForCalled
    \/ FeedCalled
    \/ ImageToVec
    \/ SerializeCalled
    \/ DeserializeCalled

SpecImage == InitImage /\ [][NextImage]_vars

\* The image with nothing cached.
Uncached(image) == [image EXCEPT !.cache = <<>>]

\* C18: after any sequence of cache_for, feed and to_vec calls, every cache
\* entry for a width w is the rasterization of the source at w, that is what
\* feed(w) returns on the same image with an empty cache; the bytes a feed(w)
\* or the serialization of the Image instruction for a profile of width w
\* returned are those same bytes, and the cached ones when w is cached.
ImageCacheIsIdempotent ==
    /\ \A w \in DOMAIN escpos_image.cache :
        escpos_image.cache[w] = Feed(Uncached(escpos_image), w)
    /\ icall \in {"feed", "to_vec"} =>
        /\ fed = Feed(Uncached(escpos_image), fed_width)
        /\ fed_width \in DOMAIN escpos_image.cache => fed = escpos_image.cache[fed_width]

\* Two widths are cached and the image was fed, through the Image
\* instruction, for one of them; the raster has at least one line of dots.
ImageCacheIsIdempotentWitness ==
    /\ icall = "to_vec"
    /\ Cardinality(DOMAIN escpos_image.cache) >= 2
    /\ fed_width \in DOMAIN escpos_image.cache
    /\ Len(fed) > fed_width
    /\ \E w \in DOMAIN escpos_image.cache : escpos_image.cache[w] # fed

\* C19: an EscposImage that is serialized and then deserialized comes back,
\* whenever it comes back at all, with a cache that has entries for exactly
\* the widths cached before, each with the same bytes.
PersistenceKeepsCache ==
    icall = "serialize" =>
        \A l \in Deserialize(persisted.val) :
            l.tag = "Ok" => l.image.cache = escpos_image.cache

(***************************************************************************)
(* Text justification, under SpecPrint.                                    *)
(***************************************************************************)
\* The tokens of the Text being printed, after its replacements.
TextTokens ==
    SplitWhitespace((IF instruction.replacements.some
                     THEN ApplyReplacements(instruction.content,
                                            instruction.replacements.val, 1, print_data)
                     ELSE Ok(instruction.content)).bytes)

\* The lines the Text put out: the bytes after the font selection and the
\* reset, cut at the line feeds.
TextLines ==
    LET head == Len(CommandBytes(SelectFont(instruction.font)))
                + Len(CommandBytes(Cmd("Reset")))
        body == SubSeq(outcome.bytes, head + 1, Len(outcome.bytes))
        feeds == {i \in 1..Len(body) : body[i] = 10}
        FeedAt(k) == IF k = 0 THEN 0
                    ELSE CHOOSE i \in feeds : Cardinality({j \in feeds : j < i}) = k - 1
    IN  [k \in 1..Cardinality(feeds) |-> SubSeq(body, FeedAt(k - 1) + 1, FeedAt(k) - 1)]

\* The number of spaces a line starts with, and ends with.
LeadingSpaces(line) ==
    Cardinality({i \in 1..Len(line) : \A j \in 1..i : line[j] = 32})

TrailingSpaces(line) ==
    Cardinality({i \in 1..Len(line) : \A j \in i..Len(line) : line[j] = 32})

TextFits ==
    /\ step = "serialized" /\ instruction.kind = "Text" /\ outcome.tag = "Ok"
    /\ \A i \in 1..Len(TextTokens) :
        Len(TextTokens[i]) <= printer_profile.columns_per_font[instruction.font]

\* C20: a Text whose tokens, after replacement, are all at most W characters
\* long (W the columns of its font) puts out lines of at most W characters
\* before the line feed.  Justified Right, every line is exactly W characters
\* and all the padding is on the left; justified Center, every line is exactly
\* W characters and the padding is shared between the two sides (the odd
\* space on the right); justified Left, the line has no padding.
TextJustifies ==
    TextFits =>
        LET w == printer_profile.columns_per_font[instruction.font]
        IN  \A k \in 1..Len(TextLines) :
                LET line == TextLines[k]
                    blank == LeadingSpaces(line) = Len(line)
                IN  /\ Len(line) <= w
                    /\ instruction.justification = "Right" =>
                        Len(line) = w /\ (blank \/ TrailingSpaces(line) = 0)
                    /\ instruction.justification = "Center" =>
                        /\ Len(line) = w
                        /\ blank \/ TrailingSpaces(line) - LeadingSpaces(line) \in {0, 1}
                    /\ instruction.justification = "Left" =>
                        LeadingSpaces(line) = 0 /\ TrailingSpaces(line) = 0

\* A Text justified Right that wrapped into two lines or more, the first one
\* padded on the left.
TextJustifiesWitness ==
    /\ TextFits
    /\ instruction.justification = "Right"
    /\ Len(TextLines) >= 2
    /\ LeadingSpaces(TextLines[1]) >= 1 /\ LeadingSpaces(TextLines[1]) < Len(TextLines[1])

(***************************************************************************)
(* SpecPrinter: calls on one Printer, from Printer::new on.                *)
(***************************************************************************)
PrinterProfileU ==
    {Profile(c, connection) :
        c \in {"FontA" :> 8, ("FontA" :> 8) @@ ("FontB" :> 10),
               ("FontA" :> 10) @@ ("FontB" :> 8)},
        connection \in {"Usb", "Terminal"}}

JumpU == (0..MaxJump) \cup {10, 255}

PrintedTextU == {<<"a", "b", " ", "a", "b", "a", " ", "a", "b">>, <<Euro>>}

InitPrinter ==
    /\ printer \in {PrinterNew(profile) : profile \in PrinterProfileU}
    /\ usb_writes = <<>> /\ stdout = <<>>
    /\ presult = Ok(<<>>) /\ pcall = "none" /\ parg = <<>>
    /\ overflow_checks \in BOOLEAN
    /\ table_options = [header_division_pattern |-> Some(<<"-">>)]
    /\ table_header = <<>> /\ table_rows = <<>>
    /\ table_out = Good(<<>>) /\ tcall = "none"
    /\ IdleMerge /\ IdleAdd /\ IdlePrint /\ IdleFormat /\ IdleImage

\* The calls that write are counted, to keep the record of the writes finite.
MayWrite == Len(usb_writes) + Len(stdout) < MaxWrites

Return(r, call, arg) ==
    /\ printer' = r.printer
    /\ presult' = r.result
    /\ usb_writes' = r.usb_writes
    /\ stdout' = r.stdout
    /\ pcall' = call
    /\ parg' = arg
    /\ UNCHANGED <<vars_merge, vars_add, vars_print, vars_format, vars_table, vars_image>>

\* printer.set_font(font)
SetFontCalled ==
    /\ \E font \in {"FontA", "FontB", "FontC"} :
        LET r == PrinterSetFont(printer, font)
        IN  printer' = r.printer /\ presult' = r.result /\ parg' = font
    /\ pcall' = "set_font"
    /\ UNCHANGED <<usb_writes, stdout>>
    /\ UNCHANGED <<vars_merge, vars_add, vars_print, vars_format, vars_table, vars_image>>

\* printer.set_space_split(state)
SetSpaceSplitCalled ==
    /\ \E state \in BOOLEAN :
        printer' = PrinterSetSpaceSplit(printer, state) /\ parg' = state
    /\ presult' = Ok(<<>>)
    /\ pcall' = "set_space_split"
    /\ UNCHANGED <<usb_writes, stdout>>
    /\ UNCHANGED <<vars_merge, vars_add, vars_print, vars_format, vars_table, vars_image>>

\* printer.jump(n)
JumpCalled ==
    /\ MayWrite
    /\ \E n \in JumpU, accepted \in BOOLEAN :
        Return(PrinterJump(printer, n, accepted, usb_writes, stdout), "jump", n)

\* printer.cut()
CutCalled ==
    /\ MayWrite
    /\ \E accepted \in BOOLEAN :
        Return(PrinterCut(printer, accepted, usb_writes, stdout), "cut", <<>>)

\* printer.print(text)
PrintCalled ==
    /\ MayWrite
    /\ \E text \in PrintedTextU, accepted \in BOOLEAN :
        Return(PrinterPrint(printer, text, accepted, usb_writes, stdout), "print", text)

\* printer.println(text)
PrintlnCalled ==
    /\ MayWrite
    /\ \E text \in PrintedTextU, accepted \in BOOLEAN :
        Return(PrinterPrintln(printer, text, accepted, usb_writes, stdout), "println", text)

\* printer.duo_table(header, rows)
PrinterDuoTableCalled ==
    /\ MayWrite
    /\ \E accepted \in BOOLEAN :
        Return(PrinterDuoTable(printer, <<A, B>>, << <<AB, A>> >>, overflow_checks,
                               accepted, usb_writes, stdout),
               "duo_table", <<A, B>>)

\* printer.trio_table(header, rows)
PrinterTrioTableCalled ==
    /\ MayWrite
    /\ \E accepted \in BOOLEAN :
        Return(PrinterTrioTable(printer, <<A, B, A>>, << <<A, A, B>> >>, overflow_checks,
                                accepted, usb_writes, stdout),
               "trio_table", <<A, B, A>>)

NextPrinter ==
    \/ SetFontCalled
    \/ SetSpaceSplitCalled
    \/ JumpCalled
    \/ CutCalled
    \/ PrintCalled
    \/ PrintlnCalled
    \/ PrinterDuoTableCalled
    \/ PrinterTrioTableCalled

SpecPrinter == InitPrinter /\ [][NextPrinter]_vars

\* C21: a jump(n) that the transport accepted has sent it exactly n line
\* feeds (bytes 0x0A) and nothing else.
JumpSendsLineFeeds ==
    pcall = "jump" /\ presult.tag = "Ok" =>
        usb_writes[Len(usb_writes)] = Repeat(10, parg)

\* The width the formatter of the printer splits words and lays tables out
\* with is the width the profile gives for the current font.
FormatterWidthIsFontWidth ==
    printer.formatter.width =
        printer.printer_profile.columns_per_font[printer.font_and_width[1]]

\* C28: after Printer::new and any calls of set_font and set_space_split the
\* width print, println, duo_table and trio_table work with is the width the
\* profile gives for the current font; a set_font with a font the profile
\* does not have returns UnsupportedFont and leaves font and width alone.
PrinterWidthFollowsFont ==
    /\ FormatterWidthIsFontWidth
    /\ pcall = "set_font" /\ parg \notin DOMAIN printer.printer_profile.columns_per_font =>
        /\ presult = Err("UnsupportedFont", <<>>)
        /\ printer.font_and_width[1] # parg

\* The byte sequence the documentation of Command gives for a command.
DocumentedBytes(c) ==
    CASE c.cmd = "Cut" -> <<29, 86, 65, 150>>
      [] c.cmd = "Reset" -> <<27, 64>>
      [] c.cmd = "PrintModeDefault" -> <<27, 33, 0>>
      [] c.cmd = "SelectCharset" -> <<27, 82>> \o CharsetBytes(c.arg)
      [] c.cmd = "SelectCodeTable" -> <<27, 116>> \o CodeTableBytes(c.arg)
      [] c.cmd = "SelectFont" -> <<27, 77>> \o FontBytes(c.arg)
      [] c.cmd = "Bitmap" -> <<27, 42>>

\* C22: a Command instruction is serialized, whatever the profile and the
\* print data, to the byte sequence its documentation names: Cut = 1D 56 41 96,
\* Reset = 1B 40, PrintModeDefault = 1B 21 00, SelectCharset = 1B 52 n,
\* SelectCodeTable = 1B 74 n, SelectFont = 1B 4D n, Bitmap = 1B 2A.
CommandBytesAreDocumented ==
    /\ step = "serialized" /\ instruction.kind = "Command"
    /\ instruction.command.cmd \in {"Cut", "Reset", "PrintModeDefault", "SelectCharset",
                                    "SelectCodeTable", "SelectFont", "Bitmap"}
    => outcome = Ok(DocumentedBytes(instruction.command))

(***************************************************************************)
(* Formatter::space_split on single words and on whole texts, under        *)
(* SpecFormat.                                                             *)
(***************************************************************************)
\* The source is one word, with no whitespace in or around it, of at least
\* width characters.
SingleLongWord ==
    /\ fcall = "space_split" /\ width >= 1 /\ Len(source) >= width
    /\ \A i \in 1..Len(source) : source[i] \notin Whitespace

\* C23: a source that is one word of L >= W characters comes out as
\* ceil(L / W) lines, each the next W characters of the word (the last one
\* what is left), and no other line, empty or repeated.
HardSplitCutsInChunks ==
    SingleLongWord =>
        Lines(split) =
            [k \in 1..((Len(source) + width - 1) \div width) |->
                SubSeq(source, (k - 1) * width + 1,
                       IF k * width < Len(source) THEN k * width ELSE Len(source))]

\* A text without its whitespace.
Squeezed(text) == SelectSeq(text, LAMBDA c : c \notin Whitespace)

\* The places, counted in characters that are not whitespace, where a text
\* has whitespace between two words.
WordBreaks(text) ==
    LET words == SplitWhitespace(text)
    IN  {Len(Join(SubSeq(words, 1, k), <<>>)) : k \in 1..(Len(words) - 1)}

\* C27: space_split, for a width of one column or more, neither loses nor
\* duplicates nor merges text: without their whitespace the result and the
\* source are the same string, and where the source has whitespace between
\* two words the result has some too.
SplitKeepsText ==
    fcall = "space_split" /\ width >= 1 =>
        /\ Squeezed(split) = Squeezed(source)
        /\ WordBreaks(source) \subseteq WordBreaks(split)

\* C24: after a feed(w), direct or through the serialization of an Image
\* instruction, the cache of the image holds an entry for w (the one that
\* was there, or the raster made on demand), so that the next feed(w) is
\* served from the cache.
FeedPopulatesCache ==
    icall \in {"feed", "to_vec"} =>
        /\ fed_width \in DOMAIN escpos_image.cache
        /\ escpos_image.cache[fed_width] = fed

\* The number of raster lines of a feed for the width w: one per group of 8
\* rows of the image scaled to that width.
RasterLineCount(image, w) == ((w * image.im_height) \div (3 * image.im_width) + 7) \div 8

\* C25: the bytes rasterization produces for a width W are NoLine (1B 33 00),
\* one raster line per group of 8 pixel rows, then ResetLine (1B 32) and
\* Reset; a raster line is 1B 2A, one density byte, W mod 256, W div 256,
\* exactly W data bytes and a line feed, so that nL + 256 * nH is the number
\* of data bytes of the line.
RasterFeedIsFramed ==
    icall \in {"feed", "to_vec"} =>
        LET w == fed_width
            k == RasterLineCount(escpos_image, w)
            at(j) == 3 + (j - 1) * (w + 6)
        IN  /\ Len(fed) = 3 + k * (w + 6) + 4
            /\ SubSeq(fed, 1, 3) = <<27, 51, 0>>
            /\ \A j \in 1..k :
                /\ SubSeq(fed, at(j) + 1, at(j) + 2) = <<27, 42>>
                /\ fed[at(j) + 3] \in 0..255
                /\ fed[at(j) + 4] = w % 256
                /\ fed[at(j) + 5] = w \div 256
                /\ fed[at(j) + 4] + 256 * fed[at(j) + 5] = w
                /\ \A i \in 1..w : fed[at(j) + 5 + i] \in 0..255
                /\ fed[at(j) + 6 + w] = 10
            /\ SubSeq(fed, Len(fed) - 3, Len(fed))
                   = <<27, 50>> \o CommandBytes(Cmd("Reset"))

\* A feed for a width of more than 255 dots with several raster lines, the
\* last of them for fewer than 8 rows of an image with ink.
RasterFeedIsFramedWitness ==
    /\ icall = "feed" /\ fed_width > 255 /\ escpos_image.ink
    /\ RasterLineCount(escpos_image, fed_width) >= 2
    /\ ((fed_width * escpos_image.im_height) \div (3 * escpos_image.im_width)) % 8 # 0
    /\ fed[Len(fed) - 5] \notin {0, 255}

(***************************************************************************)
(* The DuoTable instruction against Formatter::duo_table, under SpecPrint. *)
(***************************************************************************)
\* The header and the rows the DuoTable instruction being printed lays out.
DuoTableEntries ==
    <<instruction.header>> \o print_data["duo_tables"].val[instruction.name]

\* What Formatter::new(w).duo_table makes of that header and those rows, with
\* w the columns of the font of the instruction.
FormatterForDuoTable(checks) ==
    FormatterDuoTable(DefaultTableOptions,
                      printer_profile.columns_per_font[instruction.font],
                      instruction.header,
                      print_data["duo_tables"].val[instruction.name], checks)

\* C26: the lines a DuoTable instruction is serialized to (header line,
\* separator line, row lines) are the lines Formatter::duo_table produces,
\* with the default options, for the same header, rows and width.
DuoTableMatchesFormatter ==
    step = "serialized" /\ instruction.kind = "DuoTable" /\ outcome.tag = "Ok" =>
        \A checks \in BOOLEAN :
            /\ FormatterForDuoTable(checks).ok
            /\ IntoCp437(FormatterForDuoTable(checks).s) = outcome

\* The tokens a Text put out: the bytes after the font selection and the
\* reset, cut at the spaces and the line feeds.
PrintedTokens ==
    LET head == Len(CommandBytes(SelectFont(instruction.font)))
                + Len(CommandBytes(Cmd("Reset")))
    IN  SelectSeq(SplitFrom(SubSeq(outcome.bytes, head + 1, Len(outcome.bytes)),
                            {10, 32}, 1, <<>>),
                  LAMBDA t : t # <<>>)

\* C29: a Text that is serialized emits no blank line: every line holds a
\* token of the content (so the first line starts with the first token), and
\* the tokens come out once each, in their order in the content.
TextEmitsNoBlankLine ==
    step = "serialized" /\ instruction.kind = "Text" /\ outcome.tag = "Ok" =>
        /\ \A k \in 1..Len(TextLines) : \E i \in 1..Len(TextLines[k]) : TextLines[k][i] # 32
        /\ PrintedTokens = [i \in 1..Len(TextTokens) |-> IntoCp437(TextTokens[i]).bytes]

\* The rows of three cells the table instruction lays out with trio_row: the
\* header, then the rows of the table (without the first cell, QuadTable).
TableRows ==
    IF instruction.kind = "TrioTable"
    THEN <<instruction.header>> \o print_data.trio_tables.val[instruction.name]
    ELSE <<instruction.header>>
         \o [i \in 1..Len(print_data.quad_tables.val[instruction.name]) |->
                Tail(print_data.quad_tables.val[instruction.name][i])]

\* The widths of the left and right columns the instruction computed.
TableColumnWidths ==
    LET first == IF instruction.kind = "TrioTable" THEN 1 ELSE 2
        table == IF instruction.kind = "TrioTable"
                 THEN print_data.trio_tables.val[instruction.name]
                 ELSE print_data.quad_tables.val[instruction.name]
    IN  ColumnWidths(MaxLen(table, 1, first, ByteLen(instruction.header[1])),
                     MaxLen(table, 1, first + 1, ByteLen(instruction.header[2])),
                     MaxLen(table, 1, first + 2, ByteLen(instruction.header[3])),
                     printer_profile.columns_per_font["FontA"])

\* The slot of each of the three columns.
TableSlots ==
    LET w == printer_profile.columns_per_font["FontA"]
        cw == TableColumnWidths
    IN  <<cw[1], w - cw[1] - cw[2] - 2, cw[2]>>

\* A cell cut to its slot with the marker, or unchanged when it fits.
CellInSlot(cell, slot) ==
    IF Len(cell) > slot THEN SubSeq(cell, 1, slot - 2) \o <<".", ".">> ELSE cell

\* C30: in a serialized TrioTable or QuadTable, every cell longer than the
\* slot of its own column is cut to the slot width and ends with "..", every
\* cell that fits is printed unchanged, and every line is width characters.
TrioRowTruncatesToSlot ==
    step = "serialized" /\ instruction.kind \in {"TrioTable", "QuadTable"}
    /\ outcome.tag = "Ok" =>
        LET w == printer_profile.columns_per_font["FontA"]
            cw == TableColumnWidths
        IN  \A k \in 1..Len(TableRows) :
                LET line == TrioRow(TableRows[k], w, cw[1], cw[2])
                IN  /\ line.tag = "Ok"
                    /\ Len(line.bytes) = w + 1
                    /\ line.bytes =
                         PadRight(CellInSlot(TableRows[k][1], TableSlots[1]), cw[1])
                         \o PadCenter(CellInSlot(TableRows[k][2], TableSlots[2]),
                                      w - cw[1] - cw[2])
                         \o PadLeft(CellInSlot(TableRows[k][3], TableSlots[3]), cw[2])
                         \o <<"\n">>
====
